---- MODULE Spec2Model ----
(***************************************************************************)
(* A model of the ptouch core: the raster line compressor                  *)
(* (src/src/printable_image.rs), the raster command builder                *)
(* (src/src/raster_command.rs), the tape table (src/src/tape.rs), the      *)
(* status record (src/src/status.rs), the transports (src/src/backend.rs)  *)
(* and the print job (src/src/main.rs, src/src/printer.rs).                *)
(*                                                                         *)
(* Bytes are naturals 0..255; a byte string is a sequence of bytes.        *)
(***************************************************************************)
EXTENDS Integers, Sequences, FiniteSets

VARIABLES
    data,        \* compress_tiff_group4: the input slice
    records,     \* the records its loop has pushed, one per iteration
    compressed,  \* its output Vec<u8>
    cpc,         \* "input" before the call, "done" after it
    buffer,      \* RasterCommand.buffer of the builder
    calls,       \* the builder methods called on it, with the bytes each appended
    built,       \* build() has consumed the builder
    pc,          \* handle_print_command: "start", "opened", "status", "verified", "exit"
    png,         \* the PNG file given to the print command
    continuous,  \* args.continuous
    backend,     \* "usb" or "network": the transport from_host chose
    status,      \* <<>>, or <<s>> with s the 32 bytes get_status returned
    printable,   \* <<>>, or <<t>> with t the TapeSpec of the PrintableImage
    sent,        \* every buffer handed to Backend::send_command, in order
    result,      \* "running", "ok", or the error handle_print_command returned
    call,        \* a library function called on its own: its name and arguments
    ret,         \* <<>>, or <<v>> with v what that call returned
    wire,        \* the USB bulk transfers made, in order
    upc,         \* UsbBackend::get_status: "send", "top", "read", "returned"
    elapsed,     \* start_time.elapsed() in ms, as last observed
    last,        \* what the last read_bulk of the poll loop returned
    response_buffer  \* the 32-byte buffer read_bulk fills

cvars == <<data, records, compressed, cpc>>
bvars == <<buffer, calls, built>>
jvars == <<pc, png, continuous, backend, status, printable, sent, result>>
fvars == <<call, ret, wire>>
uvars == <<upc, elapsed, last, response_buffer>>

vars == <<data, records, compressed, cpc, buffer, calls, built,
          pc, png, continuous, backend, status, printable, sent, result,
          call, ret, wire, upc, elapsed, last, response_buffer>>

(***************************************************************************)
(* Bounds of the model                                                     *)
(***************************************************************************)
MaxRun == 258    \* longest single run among the compressor's inputs
MaxAlt == 130    \* longest alternating input
MaxLen == 4      \* every byte string over Alphabet up to this length
MaxSegs == 2     \* inputs made of up to this many long segments
MaxCalls == 2    \* builder methods called on one RasterCommand
MaxWidth == 2    \* widest PNG, in columns

Byte == 0..255

Take(s, n) == SubSeq(s, 1, n)
Drop(s, n) == SubSeq(s, n + 1, Len(s))

RECURSIVE Concat(_)
Concat(ss) == IF ss = <<>> THEN <<>> ELSE Head(ss) \o Concat(Tail(ss))

(***************************************************************************)
(* Raster line compressor                                                  *)
(***************************************************************************)
MaxRunLen == 255
MaxLiteralLen == 127

Min(a, b) == IF a < b THEN a ELSE b

\* take_consecutive_run's while loop, `len` starting at 1: the value of `len`
\* when the loop condition first fails, that is the length of the longest
\* prefix of d made of copies of d[1], capped at MaxRunLen.
ConsecutiveLen(d) ==
    LET lim == Min(Len(d), MaxRunLen) IN
    IF \A k \in 2..lim : d[k] = d[1]
    THEN lim
    ELSE (CHOOSE k \in 2..lim :
              d[k] /= d[1] /\ \A j \in 2..(k - 1) : d[j] = d[1]) - 1

take_consecutive_run_of_three(d) ==
    IF Len(d) < 3 \/ d[1] /= d[2] \/ d[2] /= d[3]
    THEN <<>>
    ELSE Take(d, ConsecutiveLen(d))

take_consecutive_run(d) ==
    IF Len(d) < 2 \/ d[1] /= d[2]
    THEN <<>>
    ELSE Take(d, ConsecutiveLen(d))

LiteralStop_no_break(d, len) == ~(len < Len(d) /\ len < MaxLiteralLen)

\* take_literal_run's while loop leaves at `len` when the loop condition
\* fails or the break is taken.
LiteralStop(d, len) ==
    \/ ~(len < Len(d) /\ len < MaxLiteralLen)
    \/ take_consecutive_run(Drop(d, len)) /= <<>>

LiteralLen(d) ==
    CHOOSE len \in 0..Min(Len(d), MaxLiteralLen) :
        LiteralStop(d, len) /\ \A j \in 0..(len - 1) : ~LiteralStop(d, j)

take_literal_run(d) == Take(d, LiteralLen(d))

negative_count_off_by_one(count) == (256 - count) % 256

negative_count(count) == (256 - (count - 1)) % 256

literal_count_plain(count) == count % 256

literal_count(count) == (count - 1) % 256

\* One iteration of the while loop: the record it pushes for `remaining`,
\* which starts at offset `start` of the input.
compress_record(remaining, start) ==
    LET consecutive_run == take_consecutive_run(remaining) IN
    IF consecutive_run /= <<>>
    THEN [kind  |-> "run",
          start |-> start,
          count |-> Len(consecutive_run),
          ctrl  |-> negative_count(Len(consecutive_run)),
          bytes |-> <<consecutive_run[1]>>]
    ELSE LET literal_run == take_literal_run(remaining) IN
         [kind  |-> "literal",
          start |-> start,
          count |-> Len(literal_run),
          ctrl  |-> literal_count(Len(literal_run)),
          bytes |-> literal_run]

RECURSIVE compress_loop(_, _)
compress_loop(remaining, start) ==
    IF remaining = <<>>
    THEN <<>>
    ELSE LET rec == compress_record(remaining, start) IN
         <<rec>> \o compress_loop(Drop(remaining, rec.count), start + rec.count)

compress_records(d) == IF d = <<>> THEN <<>> ELSE compress_loop(d, 0)

RecordBytes(rec) == <<rec.ctrl>> \o rec.bytes

compress_tiff_group4(d) ==
    LET recs == compress_records(d) IN
    Concat([i \in 1..Len(recs) |-> RecordBytes(recs[i])])

(***************************************************************************)
(* Raster command builder (RasterCommand): each method appends to buffer   *)
(***************************************************************************)
B2I(b) == IF b THEN 1 ELSE 0

\* Option<u8>: None is <<>>, Some(v) is <<v>>.
None == <<>>
Some(v) == <<v>>

\* CommandMode and PageType discriminants
EscP == 0
Raster == 1
Template == 3
FirstPage == 0
MiddlePage == 1
LastPage == 2

invalidate(buf) == buf \o [i \in 1..200 |-> 0]

initialize(buf) == buf \o <<27, 64>>

status_information_request(buf) == buf \o <<27, 105, 83>>

switch_dynamic_command_mode(buf, mode) == buf \o <<27, 105, 97, mode>>

print_information_command_no_reserved(buf, quality_mode, recover_mode, media_type, media_width, media_length, raster_number, page_type) ==
    LET media_type_val == IF media_type /= None THEN media_type[1] ELSE 0
        media_width_val == IF media_width /= None THEN media_width[1] ELSE 0
        media_length_val == IF media_length /= None THEN media_length[1] ELSE 0
        flag == (IF media_type /= None THEN 2 ELSE 0)
                + (IF media_width /= None THEN 4 ELSE 0)
                + (IF media_length /= None THEN 8 ELSE 0)
                + B2I(quality_mode) * 64
                + B2I(recover_mode) * 128
    IN buf \o <<27, 105, 122>>
           \o <<flag, media_type_val, media_width_val, media_length_val>>
           \o <<raster_number % 256,
                (raster_number \div 256) % 256,
                (raster_number \div 65536) % 256,
                (raster_number \div 16777216) % 256>>
           \o <<page_type>>

print_information_command_modes_swapped(buf, quality_mode, recover_mode, media_type, media_width, media_length, raster_number, page_type) ==
    LET media_type_val == IF media_type /= None THEN media_type[1] ELSE 0
        media_width_val == IF media_width /= None THEN media_width[1] ELSE 0
        media_length_val == IF media_length /= None THEN media_length[1] ELSE 0
        flag == (IF media_type /= None THEN 2 ELSE 0)
                + (IF media_width /= None THEN 4 ELSE 0)
                + (IF media_length /= None THEN 8 ELSE 0)
                + B2I(quality_mode) * 128
                + B2I(recover_mode) * 64
    IN buf \o <<27, 105, 122>>
           \o <<flag, media_type_val, media_width_val, media_length_val>>
           \o <<raster_number % 256,
                (raster_number \div 256) % 256,
                (raster_number \div 65536) % 256,
                (raster_number \div 16777216) % 256>>
           \o <<page_type, 0>>

print_information_command(buf, quality_mode, recover_mode, media_type, media_width, media_length, raster_number, page_type) ==
    LET media_type_val == IF media_type /= None THEN media_type[1] ELSE 0
        media_width_val == IF media_width /= None THEN media_width[1] ELSE 0
        media_length_val == IF media_length /= None THEN media_length[1] ELSE 0
        flag == (IF media_type /= None THEN 2 ELSE 0)
                + (IF media_width /= None THEN 4 ELSE 0)
                + (IF media_length /= None THEN 8 ELSE 0)
                + B2I(quality_mode) * 64
                + B2I(recover_mode) * 128
    IN buf \o <<27, 105, 122>>
           \o <<flag, media_type_val, media_width_val, media_length_val>>
           \o <<raster_number % 256,
                (raster_number \div 256) % 256,
                (raster_number \div 65536) % 256,
                (raster_number \div 16777216) % 256>>
           \o <<page_type, 0>>

various_mode_settings(buf, auto_cut, mirror) ==
    buf \o <<27, 105, 77, B2I(auto_cut) * 64 + B2I(mirror) * 128>>

advanced_mode_settings(buf, draft, half_cut, no_chain, special_tape, high_resolution, no_clear) ==
    buf \o <<27, 105, 75,
             B2I(draft) + B2I(half_cut) * 4 + B2I(no_chain) * 8
               + B2I(special_tape) * 16 + B2I(high_resolution) * 64
               + B2I(no_clear) * 128>>

specify_margin_amount(buf, dots) ==
    buf \o <<27, 105, 100, dots % 256, (dots \div 256) % 256>>

specify_page_number(buf, n) == buf \o <<27, 105, 65, n>>

select_compression_mode(buf, tiff) == buf \o <<77, IF tiff THEN 2 ELSE 0>>

raster_graphics_transfer_big_endian(buf, d) ==
    LET len == Len(d) % 65536 IN
    buf \o <<71, (len \div 256) % 256, len % 256>> \o d

raster_graphics_transfer(buf, d) ==
    LET len == Len(d) % 65536 IN
    buf \o <<71, len % 256, (len \div 256) % 256>> \o d

zero_raster_graphics(buf) == buf \o <<90>>

print_command(buf) == buf \o <<12>>

print_command_with_feeding(buf) == buf \o <<26>>

build(buf) == buf

(***************************************************************************)
(* Tape table (TapeSpec)                                                   *)
(***************************************************************************)
Tape == {"TZe3H", "TZe6H", "TZe9H", "TZe12H", "TZe18H", "TZe24H", "TZe36H",
         "TZe3L", "TZe6L", "TZe9L", "TZe12L", "TZe18L", "TZe24L"}

MkTapeSpec_pins_swapped(name, t) ==
    [name |-> name, width_mm |-> t[1], width_dots |-> t[2], inner_dots |-> t[3],
     total_pins |-> t[5], right_pins |-> t[4], dpi |-> t[6]]

MkTapeSpec(name, t) ==
    [name |-> name, width_mm |-> t[1], width_dots |-> t[2], inner_dots |-> t[3],
     total_pins |-> t[4], right_pins |-> t[5], dpi |-> t[6]]

TapeSpec_new(tape_name) ==
    MkTapeSpec(tape_name,
        CASE tape_name = "TZe3H"  -> << 4,  48,  48, 560, 264, 360>>
          [] tape_name = "TZe6H"  -> << 6,  84,  64, 560, 256, 360>>
          [] tape_name = "TZe9H"  -> << 9, 128, 106, 560, 235, 360>>
          [] tape_name = "TZe12H" -> <<12, 170, 150, 560, 213, 360>>
          [] tape_name = "TZe18H" -> <<18, 256, 234, 560, 171, 360>>
          [] tape_name = "TZe24H" -> <<24, 340, 320, 560, 128, 360>>
          [] tape_name = "TZe36H" -> <<36, 512, 454, 560,  61, 360>>
          [] tape_name = "TZe3L"  -> << 4,  24,  24, 128,  52, 180>>
          [] tape_name = "TZe6L"  -> << 6,  42,  32, 128,  48, 180>>
          [] tape_name = "TZe9L"  -> << 9,  64,  50, 128,  39, 180>>
          [] tape_name = "TZe12L" -> <<12,  84,  70, 128,  29, 180>>
          [] tape_name = "TZe18L" -> <<18, 128, 112, 128,   8, 180>>
          [] tape_name = "TZe24L" -> <<24, 170, 128, 128,   0, 180>>)

\* Option<TapeSpec>: <<>> is None, <<t>> is Some(t).
from_width_dots_and_dpi(dots, dpi) ==
    CASE dots =  48 /\ dpi = 360 -> <<TapeSpec_new("TZe3H")>>
      [] dots =  84 /\ dpi = 360 -> <<TapeSpec_new("TZe6H")>>
      [] dots = 128 /\ dpi = 360 -> <<TapeSpec_new("TZe9H")>>
      [] dots = 170 /\ dpi = 360 -> <<TapeSpec_new("TZe12H")>>
      [] dots = 256 /\ dpi = 360 -> <<TapeSpec_new("TZe18H")>>
      [] dots = 340 /\ dpi = 360 -> <<TapeSpec_new("TZe24H")>>
      [] dots = 512 /\ dpi = 360 -> <<TapeSpec_new("TZe36H")>>
      [] dots =  24 /\ dpi = 180 -> <<TapeSpec_new("TZe3L")>>
      [] dots =  42 /\ dpi = 180 -> <<TapeSpec_new("TZe6L")>>
      [] dots =  64 /\ dpi = 180 -> <<TapeSpec_new("TZe9L")>>
      [] dots =  84 /\ dpi = 180 -> <<TapeSpec_new("TZe12L")>>
      [] dots = 128 /\ dpi = 180 -> <<TapeSpec_new("TZe18L")>>
      [] dots = 170 /\ dpi = 180 -> <<TapeSpec_new("TZe24L")>>
      [] OTHER -> <<>>

from_width_mm_and_dpi_any_dpi(mm, dpi) ==
    LET m == {t \in Tape : TapeSpec_new(t).width_mm = mm} IN
    IF m = {} THEN <<>>
    ELSE IF \E t \in m : TapeSpec_new(t).dpi = dpi
         THEN <<TapeSpec_new(CHOOSE t \in m : TapeSpec_new(t).dpi = dpi)>>
         ELSE <<TapeSpec_new(CHOOSE t \in m : TRUE)>>

from_width_mm_and_dpi(mm, dpi) ==
    CASE mm =  4 /\ dpi = 360 -> <<TapeSpec_new("TZe3H")>>
      [] mm =  6 /\ dpi = 360 -> <<TapeSpec_new("TZe6H")>>
      [] mm =  9 /\ dpi = 360 -> <<TapeSpec_new("TZe9H")>>
      [] mm = 12 /\ dpi = 360 -> <<TapeSpec_new("TZe12H")>>
      [] mm = 18 /\ dpi = 360 -> <<TapeSpec_new("TZe18H")>>
      [] mm = 24 /\ dpi = 360 -> <<TapeSpec_new("TZe24H")>>
      [] mm = 36 /\ dpi = 360 -> <<TapeSpec_new("TZe36H")>>
      [] mm =  4 /\ dpi = 180 -> <<TapeSpec_new("TZe3L")>>
      [] mm =  6 /\ dpi = 180 -> <<TapeSpec_new("TZe6L")>>
      [] mm =  9 /\ dpi = 180 -> <<TapeSpec_new("TZe9L")>>
      [] mm = 12 /\ dpi = 180 -> <<TapeSpec_new("TZe12L")>>
      [] mm = 18 /\ dpi = 180 -> <<TapeSpec_new("TZe18L")>>
      [] mm = 24 /\ dpi = 180 -> <<TapeSpec_new("TZe24L")>>
      [] OTHER -> <<>>

\* The command line's tape names and resolutions (main.rs)
TapeName == {"Tape3_5", "Tape6", "Tape9", "Tape12", "Tape18", "Tape24", "Tape36"}
Resolution == {"Dpi180", "Dpi360"}

to_dpi(resolution) == IF resolution = "Dpi180" THEN 180 ELSE 360

\* Result<Tape>: [ok, val, err], as Ok and Err below build it
to_tape(tape_name, resolution) ==
    LET ok(t) == [ok |-> TRUE, val |-> t, err |-> ""] IN
    CASE tape_name = "Tape3_5" /\ resolution = "Dpi360" -> ok("TZe3H")
      [] tape_name = "Tape6"   /\ resolution = "Dpi360" -> ok("TZe6H")
      [] tape_name = "Tape9"   /\ resolution = "Dpi360" -> ok("TZe9H")
      [] tape_name = "Tape12"  /\ resolution = "Dpi360" -> ok("TZe12H")
      [] tape_name = "Tape18"  /\ resolution = "Dpi360" -> ok("TZe18H")
      [] tape_name = "Tape24"  /\ resolution = "Dpi360" -> ok("TZe24H")
      [] tape_name = "Tape36"  /\ resolution = "Dpi360" -> ok("TZe36H")
      [] tape_name = "Tape3_5" /\ resolution = "Dpi180" -> ok("TZe3L")
      [] tape_name = "Tape6"   /\ resolution = "Dpi180" -> ok("TZe6L")
      [] tape_name = "Tape9"   /\ resolution = "Dpi180" -> ok("TZe9L")
      [] tape_name = "Tape12"  /\ resolution = "Dpi180" -> ok("TZe12L")
      [] tape_name = "Tape18"  /\ resolution = "Dpi180" -> ok("TZe18L")
      [] tape_name = "Tape24"  /\ resolution = "Dpi180" -> ok("TZe24L")
      [] tape_name = "Tape36"  /\ resolution = "Dpi180" ->
            [ok |-> FALSE, val |-> <<>>,
             err |-> "36mm tape not supported on 180DPI printers"]

(***************************************************************************)
(* Status record: 32 bytes, raw_data[k] of the source is st[k + 1]         *)
(***************************************************************************)
error_info1(st) == st[9]
error_info2_at_offset_10(st) == st[11]

error_info2(st) == st[10]
media_width_mm(st) == st[11]
media_type(st) == st[12]

has_errors_info1_only(st) == error_info1(st) /= 0

has_errors(st) == error_info1(st) /= 0 \/ error_info2(st) /= 0

printer_dpi_default_180(st) ==
    CASE st[5] \in {111, 112, 113, 120} -> 360
      [] st[5] = 90 -> 180
      [] OTHER -> 180

printer_dpi(st) ==
    CASE st[5] \in {111, 112, 113, 120} -> 360
      [] st[5] = 90 -> 180
      [] OTHER -> 360

(***************************************************************************)
(* Rasterizer                                                              *)
(***************************************************************************)
\* The gray value convert_to_grayscale gives for pixel k (0-based) of the
\* decoded frame, 8 bits per channel. An unsupported colour type is an error.
GrayscaleSupported(color_type) == color_type \in {"Grayscale", "Rgb", "Rgba"}

\* (c as f32 * alpha + 255.0 * (1.0 - alpha)) as u32, alpha = a as f32 / 255.0.
\* For a = 0 and a = 255 alpha is exactly 0.0 and 1.0 and the f32 result is
\* this integer; the model's files use no other alpha.
Composite(c, a) == (c * a + 255 * (255 - a)) \div 255

convert_to_grayscale(buf, color_type) ==
    CASE color_type = "Grayscale" -> buf
      [] color_type = "Rgb" ->
            [k \in 1..(Len(buf) \div 3) |->
                (buf[3 * k - 2] + buf[3 * k - 1] + buf[3 * k]) \div 3]
      [] color_type = "Rgba" ->
            [k \in 1..(Len(buf) \div 4) |->
                (Composite(buf[4 * k - 3], buf[4 * k])
                   + Composite(buf[4 * k - 2], buf[4 * k])
                   + Composite(buf[4 * k - 1], buf[4 * k])) \div 3]

PinSet_below_128(gray_buf, width, height, tape_spec, x, pin) ==
    LET margin == (tape_spec.width_dots - tape_spec.inner_dots) \div 2
        inner == tape_spec.inner_dots
        right_pin == tape_spec.right_pins
        y == pin - right_pin + margin
        pixel_idx == y * width + x
    IN /\ y >= margin /\ y < Min(margin + inner, height)
       /\ pin < tape_spec.total_pins
       /\ pixel_idx < Len(gray_buf)
       /\ gray_buf[pixel_idx + 1] < 128

\* Whether the loop over y sets the bit of `pin` in the raster line of
\* column x: pin = right_pin + (y - margin) for the one y of the loop's
\* range margin..min(margin + inner, height) - 1 that maps to it.
PinSet(gray_buf, width, height, tape_spec, x, pin) ==
    LET margin == (tape_spec.width_dots - tape_spec.inner_dots) \div 2
        inner == tape_spec.inner_dots
        right_pin == tape_spec.right_pins
        y == pin - right_pin + margin
        pixel_idx == y * width + x
    IN /\ y >= margin /\ y < Min(margin + inner, height)
       /\ pin < tape_spec.total_pins
       /\ pixel_idx < Len(gray_buf)
       /\ gray_buf[pixel_idx + 1] < 127

RasterByte_lsb_first(gray_buf, width, height, tape_spec, x, byte_idx) ==
    LET bit(j) == IF PinSet(gray_buf, width, height, tape_spec, x, 8 * byte_idx + j)
                  THEN 1 ELSE 0
    IN bit(7) * 128 + bit(6) * 64 + bit(5) * 32 + bit(4) * 16
         + bit(3) * 8 + bit(2) * 4 + bit(1) * 2 + bit(0)

\* raster_line[byte_idx] after the loop: bit 7 - pin % 8 for each pin set.
RasterByte(gray_buf, width, height, tape_spec, x, byte_idx) ==
    LET bit(j) == IF PinSet(gray_buf, width, height, tape_spec, x, 8 * byte_idx + j)
                  THEN 1 ELSE 0
    IN bit(0) * 128 + bit(1) * 64 + bit(2) * 32 + bit(3) * 16
         + bit(4) * 8 + bit(5) * 4 + bit(6) * 2 + bit(7)

raster_lines_of_reversed(gray_buf, width, height, tape_spec) ==
    LET bytes_per_raster == tape_spec.total_pins \div 8 IN
    [c \in 1..width |->
        [k \in 1..bytes_per_raster |->
            RasterByte(gray_buf, width, height, tape_spec, width - c, k - 1)]]

raster_lines_of(gray_buf, width, height, tape_spec) ==
    LET bytes_per_raster == tape_spec.total_pins \div 8 IN
    [c \in 1..width |->
        [k \in 1..bytes_per_raster |->
            RasterByte(gray_buf, width, height, tape_spec, c - 1, k - 1)]]

(***************************************************************************)
(* The PNG file of a print job, as the png decoder presents it             *)
(***************************************************************************)
PngHeights == {24, 50, 84, 170}
Patterns == {"white", "black", "rows", "edge", "first"}

\* The grey level of pixel (x, y) of an 8-bit grayscale file
PatGray(pat, x, y) ==
    CASE pat = "white" -> 255
      [] pat = "black" -> 0
      [] pat = "rows"  -> IF y % 2 = 0 THEN 0 ELSE 255
      [] pat = "edge"  -> IF (x + y) % 2 = 0 THEN 126 ELSE 127
      [] pat = "first" -> IF x = 0 THEN 0 ELSE 255

\* The colour of pixel (x, y) of an 8-bit RGB file
PatRgb(pat, x, y) ==
    CASE pat = "white" -> <<255, 255, 255>>
      [] pat = "black" -> <<0, 0, 0>>
      [] pat = "rows"  -> IF y % 2 = 0 THEN <<255, 0, 0>> ELSE <<255, 255, 0>>
      [] pat = "edge"  -> IF (x + y) % 2 = 0 THEN <<126, 126, 127>> ELSE <<127, 127, 127>>
      [] pat = "first" -> IF x = 0 THEN <<0, 0, 0>> ELSE <<255, 255, 255>>

\* The colour and alpha of pixel (x, y) of an 8-bit RGBA file
PatRgba(pat, x, y) ==
    CASE pat = "white" -> <<255, 255, 255, 255>>
      [] pat = "black" -> <<0, 0, 0, 255>>
      [] pat = "rows"  -> IF y % 2 = 0 THEN <<0, 0, 0, 255>> ELSE <<0, 0, 0, 0>>
      [] pat = "edge"  -> IF (x + y) % 2 = 0 THEN <<126, 126, 127, 255>>
                                             ELSE <<127, 127, 127, 255>>
      [] pat = "first" -> IF x = 0 THEN <<0, 0, 0, 255>> ELSE <<255, 255, 255, 0>>

\* The frame next_frame decodes into buf, rows top to bottom
PngBuf(p) ==
    IF p.color = "Rgba"
    THEN [k \in 1..(4 * p.width * p.height) |->
            PatRgba(p.pat, ((k - 1) \div 4) % p.width, ((k - 1) \div 4) \div p.width)[((k - 1) % 4) + 1]]
    ELSE IF p.color = "Rgb"
    THEN [k \in 1..(3 * p.width * p.height) |->
            PatRgb(p.pat, ((k - 1) \div 3) % p.width, ((k - 1) \div 3) \div p.width)[((k - 1) % 3) + 1]]
    ELSE [k \in 1..(p.width * p.height) |->
            PatGray(p.pat, (k - 1) % p.width, (k - 1) \div p.width)]

PngInputs ==
    {[header_ok |-> TRUE, frame_ok |-> TRUE, height |-> h, width |-> w,
      color |-> c, pat |-> q] :
        h \in PngHeights, w \in 1..MaxWidth, c \in {"Grayscale", "Rgb", "Rgba"},
        q \in Patterns}
    \cup {[header_ok |-> TRUE, frame_ok |-> TRUE, height |-> h, width |-> 1,
           color |-> "Indexed", pat |-> "black"] : h \in {84, 170}}
    \cup {[header_ok |-> TRUE, frame_ok |-> FALSE, height |-> h, width |-> 1,
           color |-> "Grayscale", pat |-> "black"] : h \in {84, 170}}
    \cup {[header_ok |-> FALSE, frame_ok |-> FALSE, height |-> 0, width |-> 0,
           color |-> "Grayscale", pat |-> "white"]}

Ok(v) == [ok |-> TRUE, val |-> v, err |-> ""]
Err(e) == [ok |-> FALSE, val |-> <<>>, err |-> e]

png_to_raster_lines(p, tape_spec) ==
    IF ~p.header_ok \/ ~p.frame_ok THEN Err("png decoding error")
    ELSE IF ~GrayscaleSupported(p.color) THEN Err("Unsupported color type")
    ELSE Ok(raster_lines_of(convert_to_grayscale(PngBuf(p), p.color),
                            p.width, p.height, tape_spec))

from_png_data_no_height_check(p, tape_spec) ==
    IF ~p.header_ok THEN Err("png decoding error")
    ELSE Ok(tape_spec)

\* PrintableImage::from_png_data: the tape spec kept with the PNG, or the error
from_png_data(p, tape_spec) ==
    IF ~p.header_ok THEN Err("png decoding error")
    ELSE IF p.height /= tape_spec.width_dots THEN Err("PNG height mismatch")
    ELSE Ok(tape_spec)

(***************************************************************************)
(* Transports (Backend)                                                    *)
(***************************************************************************)
\* A status record as a printer sends it: model id at offset 4, the two
\* error bytes at offsets 8 and 9, the media width at offset 10.
StatusOf(model, e1, e2, mm) ==
    [k \in 1..32 |->
        CASE k = 1 -> 128 [] k = 2 -> 32 [] k = 3 -> 66 [] k = 4 -> 48
          [] k = 5 -> model [] k = 9 -> e1 [] k = 10 -> e2 [] k = 11 -> mm
          [] k = 12 -> 1 [] OTHER -> 0]

PrinterStatuses ==
    {StatusOf(m, e1, e2, mm) :
        m \in {0, 90, 111}, e1 \in {0, 1}, e2 \in {0, 16}, mm \in {0, 4, 6, 12, 24, 36}}

\* What the SNMP GET can come back with
SnmpResponses ==
    {[kind |-> k, data |-> <<>>] : k \in {"error", "none", "other"}}
    \cup {[kind |-> "octets", data |-> d] : d \in PrinterStatuses}
    \cup {[kind |-> "octets", data |-> d] :
            d \in {Take(StatusOf(111, 0, 0, 12), 31), StatusOf(111, 0, 0, 12) \o <<0>>}}

NetworkBackend_get_status_any_length(response) ==
    CASE response.kind = "error" -> Err("SNMP error")
      [] response.kind = "none" -> Err("No SNMP response received")
      [] response.kind = "octets" -> Ok(response.data)
      [] OTHER -> Err("Invalid SNMP response type: expected OctetString")

NetworkBackend_get_status(response) ==
    CASE response.kind = "error" -> Err("SNMP error")
      [] response.kind = "none" -> Err("No SNMP response received")
      [] response.kind = "octets" ->
            IF Len(response.data) = 32
            THEN Ok(response.data)
            ELSE Err("Invalid status data length")
      [] OTHER -> Err("Invalid SNMP response type: expected OctetString")

\* write_all and flush succeed or fail
NetworkBackend_send_command(d, io_ok) ==
    IF io_ok THEN Ok(<<>>) ELSE Err("io error")

\* write_bulk returned Ok(bytes_written), or an error (bytes_written = -1)
UsbBackend_send_command(d, bytes_written) ==
    IF bytes_written < 0 THEN Err("usb error")
    ELSE IF bytes_written /= Len(d) THEN Err("Incomplete USB write")
    ELSE Ok(<<>>)

WriteOutcomes(d) == {-1, 0, Len(d) - 1, Len(d)}

UsbBackend_send_command_writes_remainder(d, bytes_written) ==
    IF bytes_written >= 0 /\ bytes_written < Len(d)
    THEN <<[ep |-> "out", data |-> d, n |-> bytes_written],
           [ep |-> "out", data |-> Drop(d, bytes_written),
            n |-> Len(d) - bytes_written]>>
    ELSE <<[ep |-> "out", data |-> d, n |-> bytes_written]>>

\* The write_bulk calls one send_command makes: the endpoint, the data
\* handed over and what the call returned
UsbBackend_send_command_writes(d, bytes_written) ==
    <<[ep |-> "out", data |-> d, n |-> bytes_written]>>

StatusRequest == build(status_information_request(initialize(invalidate(<<>>))))

\* How the poll loop of UsbBackend::get_status can end
UsbPollOutcomes ==
    {Err("Status response timeout"), Err("Connection closed by printer")}
    \cup {Ok(d) : d \in PrinterStatuses}

UsbBackend_get_status(bytes_written, poll) ==
    LET w == UsbBackend_send_command(StatusRequest, bytes_written) IN
    IF ~w.ok THEN w ELSE poll

(***************************************************************************)
(* Printer::print                                                          *)
(***************************************************************************)
add_raster_lines_first_only(cmd, raster_lines) ==
    IF raster_lines = <<>> THEN cmd
    ELSE raster_graphics_transfer(cmd, compress_tiff_group4(Head(raster_lines)))

RECURSIVE add_raster_lines(_, _)
add_raster_lines(cmd, raster_lines) ==
    IF raster_lines = <<>> THEN cmd
    ELSE add_raster_lines(
            raster_graphics_transfer(cmd, compress_tiff_group4(Head(raster_lines))),
            Tail(raster_lines))

print_settings_margin_last(tape_spec, raster_count, cont) ==
    LET c1 == invalidate(<<>>)
        c2 == initialize(c1)
        c3 == switch_dynamic_command_mode(c2, Raster)
        c4 == print_information_command(c3, FALSE, TRUE, Some(0),
                  Some(tape_spec.width_mm), Some(0), raster_count, LastPage)
        c5 == various_mode_settings(c4, ~cont, FALSE)
        c6 == specify_page_number(c5, 1)
        c7 == advanced_mode_settings(c6, FALSE, TRUE, ~cont, FALSE, FALSE, FALSE)
        c8 == select_compression_mode(c7, TRUE)
    IN specify_margin_amount(c8, 14)

\* The commands print chains before the raster lines
print_settings(tape_spec, raster_count, cont) ==
    LET c1 == invalidate(<<>>)
        c2 == initialize(c1)
        c3 == switch_dynamic_command_mode(c2, Raster)
        c4 == print_information_command(c3, FALSE, TRUE, Some(0),
                  Some(tape_spec.width_mm), Some(0), raster_count, LastPage)
        c5 == various_mode_settings(c4, ~cont, FALSE)
        c6 == specify_page_number(c5, 1)
        c7 == advanced_mode_settings(c6, FALSE, TRUE, ~cont, FALSE, FALSE, FALSE)
        c8 == specify_margin_amount(c7, 14)
    IN select_compression_mode(c8, TRUE)

\* The terminal command print appends after the raster lines
print_terminal(cmd, cont) == print_command_with_feeding(cmd)

print_command_data(tape_spec, raster_lines, cont) ==
    \* `as u32` leaves every length below 2^32 as it is
    LET raster_count == Len(raster_lines)
        cmd == add_raster_lines(print_settings(tape_spec, raster_count, cont),
                                raster_lines)
    IN build(print_terminal(cmd, cont))

(***************************************************************************)
(* The compressor's inputs                                                 *)
(***************************************************************************)
SampleBytes == {0, 66, 255}
Alphabet == {0, 255}
SegLens == {1, 2, 3, 127, 128, 129, 130, 255, 256}

Run(b, n) == [i \in 1..n |-> b]
Alt(a, b, n) == [i \in 1..n |-> IF i % 2 = 1 THEN a ELSE b]

RunInputs == {Run(b, n) : b \in SampleBytes, n \in 0..MaxRun}
                 \cup {Run(b, n) : b \in Byte, n \in {1, 2, 70, 129, 130, 255}}
AltInputs == {Alt(p[1], p[2], n) : p \in {q \in SampleBytes \X SampleBytes : q[1] /= q[2]},
                                   n \in 0..MaxAlt}
SmallInputs == UNION {[1..n -> SampleBytes] : n \in 0..MaxLen}
Segments == {Run(b, n) : b \in Alphabet, n \in SegLens}
              \cup {Alt(p[1], p[2], n) : p \in {<<0, 255>>, <<255, 0>>}, n \in SegLens}

RECURSIVE SegInputs(_)
SegInputs(k) ==
    IF k = 0 THEN {<<>>}
    ELSE LET prev == SegInputs(k - 1) IN
         prev \cup {s \o t : s \in prev, t \in Segments}

TestVectors == {<<35, 186, 191, 255, 255, 255, 162, 34, 43>>,
                <<35, 186, 191, 162, 34, 43>>,
                <<66>>}

CompressInputs ==
    RunInputs \cup AltInputs \cup SmallInputs \cup SegInputs(MaxSegs) \cup TestVectors

(***************************************************************************)
(* The specifications share the module's variables; the ones a            *)
(* specification does not use stay at these values.                        *)
(***************************************************************************)
CompressIdle ==
    /\ data = <<>> /\ records = <<>> /\ compressed = <<>> /\ cpc = "idle"

BuilderIdle ==
    /\ buffer = <<>> /\ calls = <<>> /\ built = FALSE

NoPng == [header_ok |-> FALSE, frame_ok |-> FALSE, height |-> 0, width |-> 0,
          color |-> "Grayscale", pat |-> "white"]

JobIdle ==
    /\ pc = "idle" /\ png = NoPng /\ continuous = FALSE /\ backend = "network"
    /\ status = <<>> /\ printable = <<>> /\ sent = <<>> /\ result = "running"

NoCall == [op |-> "none"]

FnIdle ==
    /\ call = NoCall /\ ret = <<>> /\ wire = <<>>

NoRead == [kind |-> "none", n |-> 0, data |-> <<>>, err |-> ""]

PollIdle ==
    /\ upc = "idle" /\ elapsed = 0 /\ last = NoRead
    /\ response_buffer = [i \in 1..32 |-> 0]

(***************************************************************************)
(* SpecCompress: compress_tiff_group4 applied to one input                 *)
(***************************************************************************)
CompressInit ==
    /\ data \in CompressInputs
    /\ records = <<>>
    /\ compressed = <<>>
    /\ cpc = "input"
    /\ BuilderIdle /\ JobIdle /\ FnIdle /\ PollIdle

Compress ==
    /\ cpc = "input"
    /\ records' = compress_records(data)
    /\ compressed' = compress_tiff_group4(data)
    /\ cpc' = "done"
    /\ UNCHANGED <<data, bvars, jvars, fvars, uvars>>

CompressNext == Compress

SpecCompress == CompressInit /\ [][CompressNext]_vars

(***************************************************************************)
(* SpecBuilder: the methods of one RasterCommand called in any order       *)
(***************************************************************************)
BuilderInit ==
    /\ buffer = <<>>          \* RasterCommand::new
    /\ calls = <<>>
    /\ built = FALSE
    /\ CompressIdle /\ JobIdle /\ FnIdle /\ PollIdle

\* A method call: the buffer it leaves, logged with its arguments and the
\* bytes it appended.
Call(op, args, newbuf) ==
    /\ ~built
    /\ Len(calls) < MaxCalls
    /\ buffer' = newbuf
    /\ calls' = Append(calls, [op |-> op, args |-> args,
                               bytes |-> Drop(newbuf, Len(buffer))])
    /\ UNCHANGED <<built, cvars, jvars, fvars, uvars>>

OptArg(o) == IF o = None THEN -1 ELSE o[1]

MarginArgs == {0, 14, 300}
PageArgs == {0, 1, 255}
PayloadArgs == {<<>>, <<187, 0>>, Alt(0, 255, 256)}
InfoArgs == {<<0, FirstPage>>, <<66051, MiddlePage>>, <<1, LastPage>>}
AdvancedArgs ==
    {[i \in 1..6 |-> i = k] : k \in 0..6} \cup {[i \in 1..6 |-> TRUE]}
MediaArgs == {<<None, None, None>>, <<Some(0), Some(12), None>>,
              <<Some(1), Some(24), Some(5)>>}

CallInvalidate == Call("invalidate", <<>>, invalidate(buffer))

CallInitialize == Call("initialize", <<>>, initialize(buffer))

CallStatusInformationRequest ==
    Call("status_information_request", <<>>, status_information_request(buffer))

CallSwitchDynamicCommandMode ==
    \E mode \in {EscP, Raster, Template} :
        Call("switch_dynamic_command_mode", <<mode>>,
             switch_dynamic_command_mode(buffer, mode))

CallPrintInformationCommand ==
    \E q \in BOOLEAN, r \in BOOLEAN, m \in MediaArgs, np \in InfoArgs :
        Call("print_information_command",
             <<B2I(q), B2I(r), OptArg(m[1]), OptArg(m[2]), OptArg(m[3]), np[1], np[2]>>,
             print_information_command(buffer, q, r, m[1], m[2], m[3], np[1], np[2]))

CallVariousModeSettings ==
    \E auto_cut \in BOOLEAN, mirror \in BOOLEAN :
        Call("various_mode_settings", <<B2I(auto_cut), B2I(mirror)>>,
             various_mode_settings(buffer, auto_cut, mirror))

CallAdvancedModeSettings ==
    \E f \in AdvancedArgs :
        Call("advanced_mode_settings", [i \in 1..6 |-> B2I(f[i])],
             advanced_mode_settings(buffer, f[1], f[2], f[3], f[4], f[5], f[6]))

CallSpecifyMarginAmount ==
    \E dots \in MarginArgs :
        Call("specify_margin_amount", <<dots>>, specify_margin_amount(buffer, dots))

CallSpecifyPageNumber ==
    \E n \in PageArgs :
        Call("specify_page_number", <<n>>, specify_page_number(buffer, n))

CallSelectCompressionMode ==
    \E tiff \in BOOLEAN :
        Call("select_compression_mode", <<B2I(tiff)>>,
             select_compression_mode(buffer, tiff))

CallRasterGraphicsTransfer ==
    \E d \in PayloadArgs :
        Call("raster_graphics_transfer", d, raster_graphics_transfer(buffer, d))

CallZeroRasterGraphics ==
    Call("zero_raster_graphics", <<>>, zero_raster_graphics(buffer))

CallPrintCommand == Call("print_command", <<>>, print_command(buffer))

CallPrintCommandWithFeeding ==
    Call("print_command_with_feeding", <<>>, print_command_with_feeding(buffer))

CallBuild ==
    /\ ~built
    /\ built' = TRUE
    /\ buffer' = build(buffer)
    /\ UNCHANGED <<calls, cvars, jvars, fvars, uvars>>

BuilderNext ==
    \/ CallInvalidate
    \/ CallInitialize
    \/ CallStatusInformationRequest
    \/ CallSwitchDynamicCommandMode
    \/ CallPrintInformationCommand
    \/ CallVariousModeSettings
    \/ CallAdvancedModeSettings
    \/ CallSpecifyMarginAmount
    \/ CallSpecifyPageNumber
    \/ CallSelectCompressionMode
    \/ CallRasterGraphicsTransfer
    \/ CallZeroRasterGraphics
    \/ CallPrintCommand
    \/ CallPrintCommandWithFeeding
    \/ CallBuild

SpecBuilder == BuilderInit /\ [][BuilderNext]_vars

(***************************************************************************)
(* Spec: one print job (handle_print_command)                              *)
(***************************************************************************)
Init ==
    /\ pc = "start"
    /\ png \in PngInputs
    /\ continuous \in BOOLEAN
    /\ backend \in {"usb", "network"}
    /\ status = <<>>
    /\ printable = <<>>
    /\ sent = <<>>
    /\ result = "running"
    /\ CompressIdle /\ BuilderIdle /\ FnIdle /\ PollIdle

Exit(r) == pc' = "exit" /\ result' = r

\* Lines 335-354: the PNG header is read, then from_host opens the transport.
Open ==
    /\ pc = "start"
    /\ \E connected \in BOOLEAN :
          IF ~png.header_ok THEN Exit("png decoding error")
          ELSE IF ~connected THEN Exit("connection error")
          ELSE pc' = "opened" /\ UNCHANGED result
    /\ UNCHANGED <<png, continuous, backend, status, printable, sent, cvars, bvars, fvars, uvars>>

\* Line 355 over the network transport: the SNMP GET and its answer.
NetworkGetStatus ==
    /\ pc = "opened" /\ backend = "network"
    /\ \E response \in SnmpResponses :
          LET r == NetworkBackend_get_status(response) IN
          IF r.ok
          THEN status' = <<r.val>> /\ pc' = "status" /\ UNCHANGED result
          ELSE Exit(r.err) /\ UNCHANGED status
    /\ UNCHANGED <<png, continuous, backend, printable, sent, cvars, bvars, fvars, uvars>>

\* Line 355 over the USB transport: the status request is written, then the
\* poll loop reads the answer.
UsbGetStatus ==
    /\ pc = "opened" /\ backend = "usb"
    /\ \E bytes_written \in WriteOutcomes(StatusRequest), poll \in UsbPollOutcomes :
          LET r == UsbBackend_get_status(bytes_written, poll) IN
          /\ sent' = Append(sent, [by |-> "get_status", data |-> StatusRequest])
          /\ IF r.ok
             THEN status' = <<r.val>> /\ pc' = "status" /\ UNCHANGED result
             ELSE Exit(r.err) /\ UNCHANGED status
    /\ UNCHANGED <<png, continuous, backend, printable, cvars, bvars, fvars, uvars>>

check_status_no_comparison(st, p) ==
    IF has_errors(st) THEN Err("Cannot print due to printer errors")
    ELSE LET png_tape_spec == from_width_dots_and_dpi(p.height, printer_dpi(st))
             printer_tape_spec == from_width_mm_and_dpi(media_width_mm(st), printer_dpi(st))
         IN IF png_tape_spec = <<>> THEN Err("Unsupported PNG height")
            ELSE IF printer_tape_spec = <<>> THEN Err("Unsupported tape width")
            ELSE from_png_data(p, printer_tape_spec[1])

\* Lines 357-399: the error check, the two geometry lookups, their
\* comparison and PrintableImage::from_png_data.
check_status(st, p) ==
    IF has_errors(st) THEN Err("Cannot print due to printer errors")
    ELSE LET png_tape_spec == from_width_dots_and_dpi(p.height, printer_dpi(st))
             printer_tape_spec == from_width_mm_and_dpi(media_width_mm(st), printer_dpi(st))
         IN IF png_tape_spec = <<>> THEN Err("Unsupported PNG height")
            ELSE IF printer_tape_spec = <<>> THEN Err("Unsupported tape width")
            ELSE IF png_tape_spec[1].width_dots /= printer_tape_spec[1].width_dots
                 THEN Err("Tape specification mismatch")
            ELSE from_png_data(p, printer_tape_spec[1])

CheckStatus ==
    /\ pc = "status"
    /\ LET r == check_status(status[1], png) IN
       IF r.ok
       THEN printable' = <<r.val>> /\ pc' = "verified" /\ UNCHANGED result
       ELSE Exit(r.err) /\ UNCHANGED printable
    /\ UNCHANGED <<png, continuous, backend, status, sent, cvars, bvars, fvars, uvars>>

Printer_print_send_again ==
    /\ pc = "verified"
    /\ LET lines == png_to_raster_lines(png, printable[1]) IN
       IF ~lines.ok
       THEN Exit(lines.err) /\ UNCHANGED sent
       ELSE LET command_data == print_command_data(printable[1], lines.val, continuous) IN
            \E r \in (IF backend = "usb"
                      THEN {UsbBackend_send_command(command_data, w) :
                               w \in WriteOutcomes(command_data)}
                      ELSE {NetworkBackend_send_command(command_data, io_ok) :
                               io_ok \in BOOLEAN}) :
               /\ Exit(IF r.ok THEN "ok" ELSE r.err)
               /\ sent' = IF r.ok
                          THEN Append(sent, [by |-> "print", data |-> command_data])
                          ELSE sent \o <<[by |-> "print", data |-> command_data],
                                         [by |-> "print", data |-> command_data]>>
    /\ UNCHANGED <<png, continuous, backend, status, printable, cvars, bvars, fvars, uvars>>

\* Line 400, Printer::print: rasterize, compress, build, one send_command.
Printer_print ==
    /\ pc = "verified"
    /\ LET lines == png_to_raster_lines(png, printable[1]) IN
       IF ~lines.ok
       THEN Exit(lines.err) /\ UNCHANGED sent
       ELSE LET command_data == print_command_data(printable[1], lines.val, continuous) IN
            /\ sent' = Append(sent, [by |-> "print", data |-> command_data])
            /\ \E r \in (IF backend = "usb"
                         THEN {UsbBackend_send_command(command_data, w) :
                                  w \in WriteOutcomes(command_data)}
                         ELSE {NetworkBackend_send_command(command_data, io_ok) :
                                  io_ok \in BOOLEAN}) :
                  Exit(IF r.ok THEN "ok" ELSE r.err)
    /\ UNCHANGED <<png, continuous, backend, status, printable, cvars, bvars, fvars, uvars>>

Next ==
    \/ Open
    \/ NetworkGetStatus
    \/ UsbGetStatus
    \/ CheckStatus
    \/ Printer_print

Spec == Init /\ [][Next]_vars

(***************************************************************************)
(* SpecTape: one call of a function of the tape table                      *)
(***************************************************************************)
MaxDots == 513   \* largest width in dots given to from_width_dots_and_dpi
DpiArgs == {0, 180, 181, 360, 720}

TapeCalls ==
    {[op |-> "new", args |-> <<t>>] : t \in Tape}
    \cup {[op |-> "from_width_dots_and_dpi", args |-> <<d, dpi>>] :
            d \in 0..MaxDots, dpi \in DpiArgs}
    \cup {[op |-> "from_width_mm_and_dpi", args |-> <<mm, dpi>>] :
            mm \in Byte, dpi \in DpiArgs}
    \cup {[op |-> "to_tape", args |-> <<n, r>>] : n \in TapeName, r \in Resolution}

TapeInit ==
    /\ call \in TapeCalls
    /\ ret = <<>>
    /\ wire = <<>>
    /\ PollIdle
    /\ CompressIdle /\ BuilderIdle /\ JobIdle

Return(op, v) ==
    /\ call.op = op /\ ret = <<>>
    /\ ret' = <<v>>
    /\ UNCHANGED <<call, wire, cvars, bvars, jvars, uvars>>

CallTapeSpecNew == Return("new", TapeSpec_new(call.args[1]))

CallFromWidthDotsAndDpi ==
    Return("from_width_dots_and_dpi",
           from_width_dots_and_dpi(call.args[1], call.args[2]))

CallFromWidthMmAndDpi ==
    Return("from_width_mm_and_dpi",
           from_width_mm_and_dpi(call.args[1], call.args[2]))

CallToTape == Return("to_tape", to_tape(call.args[1], call.args[2]))

TapeNext ==
    \/ CallTapeSpecNew
    \/ CallFromWidthDotsAndDpi
    \/ CallFromWidthMmAndDpi
    \/ CallToTape

SpecTape == TapeInit /\ [][TapeNext]_vars

(***************************************************************************)
(* SpecStatus: one call of a method of a Status                            *)
(***************************************************************************)
\* Status::new(data): the record keeps the 32 bytes it is given
Status_new(raw) == raw

\* The record whose bytes are all `fill` but for value v at offset k
OneByte(fill, k, v) == [i \in 1..32 |-> IF i = k + 1 THEN v ELSE fill]

\* The record whose bytes are all `fill` but for the model id (offset 4) and
\* the two error bytes (offsets 8 and 9)
ThreeBytes(fill, model, e1, e2) ==
    [i \in 1..32 |-> CASE i = 5 -> model [] i = 9 -> e1 [] i = 10 -> e2
                        [] OTHER -> fill]

ModelIds == {0, 89, 90, 91, 111, 112, 113, 120, 255}
ErrorBytes == {0, 1, 128, 255}

StatusInputs ==
    {OneByte(fill, k, v) : fill \in {0, 255}, k \in 0..31, v \in Byte}
    \cup {ThreeBytes(fill, m, e1, e2) :
            fill \in {0, 90, 255}, m \in ModelIds, e1 \in ErrorBytes, e2 \in ErrorBytes}
    \cup PrinterStatuses

StatusCalls ==
    {[op |-> o, args |-> <<Status_new(st)>>] :
        o \in {"has_errors", "printer_dpi"}, st \in StatusInputs}

StatusInit ==
    /\ call \in StatusCalls
    /\ ret = <<>>
    /\ wire = <<>>
    /\ PollIdle
    /\ CompressIdle /\ BuilderIdle /\ JobIdle

CallHasErrors == Return("has_errors", has_errors(call.args[1]))

CallPrinterDpi == Return("printer_dpi", printer_dpi(call.args[1]))

StatusNext ==
    \/ CallHasErrors
    \/ CallPrinterDpi

SpecStatus == StatusInit /\ [][StatusNext]_vars

(***************************************************************************)
(* SpecImage: a PrintableImage built from a PNG and a tape spec, then      *)
(* rasterized (to_raster_lines) and printed (Printer::print)               *)
(***************************************************************************)
ImageHeights ==
    {TapeSpec_new(t).width_dots : t \in Tape} \cup {1, 23, 25, 150, 171, 511}

ImagePngs ==
    {[header_ok |-> TRUE, frame_ok |-> TRUE, height |-> h, width |-> w,
      color |-> c, pat |-> q] :
        h \in ImageHeights, w \in 1..MaxWidth, c \in {"Grayscale", "Rgb", "Rgba"},
        q \in Patterns}
    \cup {[header_ok |-> TRUE, frame_ok |-> TRUE, height |-> h, width |-> 1,
           color |-> "Indexed", pat |-> "black"] : h \in {84, 170}}
    \cup {[header_ok |-> TRUE, frame_ok |-> FALSE, height |-> h, width |-> 1,
           color |-> "Grayscale", pat |-> "black"] : h \in {84, 170}}
    \cup {[header_ok |-> FALSE, frame_ok |-> FALSE, height |-> 0, width |-> 0,
           color |-> "Grayscale", pat |-> "white"]}

ImageInit ==
    /\ pc = "new"
    /\ png \in ImagePngs
    /\ call \in {[op |-> "from_png_data", args |-> <<TapeSpec_new(t)>>] : t \in Tape}
    /\ continuous = FALSE
    /\ backend \in {"usb", "network"}
    /\ status = <<>>
    /\ printable = <<>>
    /\ sent = <<>>
    /\ result = "running"
    /\ ret = <<>>
    /\ wire = <<>>
    /\ PollIdle
    /\ CompressIdle /\ BuilderIdle

FromPngData ==
    /\ pc = "new"
    /\ LET r == from_png_data(png, call.args[1]) IN
       IF r.ok
       THEN printable' = <<r.val>> /\ pc' = "verified" /\ UNCHANGED result
       ELSE Exit(r.err) /\ UNCHANGED printable
    /\ UNCHANGED <<png, continuous, backend, status, sent, cvars, bvars, fvars, uvars>>

ToRasterLines ==
    /\ pc = "verified" /\ call.op = "from_png_data" /\ ret = <<>>
    /\ ret' = <<png_to_raster_lines(png, printable[1])>>
    /\ UNCHANGED <<call, wire, cvars, bvars, jvars, uvars>>

ImageNext ==
    \/ FromPngData
    \/ ToRasterLines
    \/ Printer_print

SpecImage == ImageInit /\ [][ImageNext]_vars

(***************************************************************************)
(* SpecTransfer: raster_graphics_transfer called once, on payloads of many *)
(* lengths                                                                 *)
(***************************************************************************)
MaxPayload == 300     \* every payload length up to this one is tried
MaxTransferLen == 65535

\* The payloads, each named by its kind, a byte and a length
TransferArgs ==
    {[kind |-> k, byte |-> 0, len |-> n] : k \in {"run", "alt"}, n \in 0..MaxPayload}
    \cup {[kind |-> "compressed", byte |-> b, len |-> n] : b \in {0, 255}, n \in {16, 70}}
    \cup {[kind |-> "run", byte |-> 255, len |-> n] :
            n \in {MaxTransferLen - 1, MaxTransferLen,
                   MaxTransferLen + 1, MaxTransferLen + 258}}

PayloadOf(p) ==
    CASE p.kind = "run" -> Run(p.byte, p.len)
      [] p.kind = "alt" -> Alt(71, p.byte, p.len)
      [] p.kind = "compressed" -> compress_tiff_group4(Run(p.byte, p.len))

TransferInit ==
    /\ buffer \in {<<>>, select_compression_mode(<<>>, TRUE), zero_raster_graphics(<<>>)}
    /\ calls = <<>>
    /\ built = FALSE
    /\ CompressIdle /\ JobIdle /\ FnIdle /\ PollIdle

CallRasterGraphicsTransferOnce ==
    /\ calls = <<>> /\ ~built
    /\ \E p \in TransferArgs :
          /\ buffer' = raster_graphics_transfer(buffer, PayloadOf(p))
          /\ calls' = <<[op |-> "raster_graphics_transfer", args |-> p,
                         at |-> Len(buffer)]>>
    /\ UNCHANGED <<built, cvars, jvars, fvars, uvars>>

TransferNext ==
    \/ CallRasterGraphicsTransferOnce
    \/ CallBuild

SpecTransfer == TransferInit /\ [][TransferNext]_vars

(***************************************************************************)
(* SpecUsb: one call of a method of the USB transport                      *)
(***************************************************************************)
MaxSend == 8     \* every buffer length up to this one is sent

UsbSendInputs ==
    {Run(0, n) : n \in 0..MaxSend}
    \cup {StatusRequest,
          print_command_data(TapeSpec_new("TZe3L"), <<Run(0, 16), Alt(0, 255, 16)>>, FALSE)}

UsbInit ==
    /\ call \in {[op |-> "send_command", args |-> <<d>>] : d \in UsbSendInputs}
    /\ ret = <<>>
    /\ wire = <<>>
    /\ PollIdle
    /\ CompressIdle /\ BuilderIdle /\ JobIdle

\* write_bulk returns an error (-1) or the number of bytes it wrote
UsbSendCommand ==
    /\ call.op = "send_command" /\ ret = <<>>
    /\ \E bytes_written \in (-1)..Len(call.args[1]) :
          /\ wire' = wire \o UsbBackend_send_command_writes(call.args[1], bytes_written)
          /\ ret' = <<UsbBackend_send_command(call.args[1], bytes_written)>>
    /\ UNCHANGED <<call, cvars, bvars, jvars, uvars>>

UsbNext == UsbSendCommand

SpecUsb == UsbInit /\ [][UsbNext]_vars

(***************************************************************************)
(* SpecUsbStatus: UsbBackend::get_status, step by step: the status request *)
(* is sent, then the poll loop checks its deadline and reads. Times are in *)
(* milliseconds; `elapsed` is start_time.elapsed().                        *)
(***************************************************************************)
UsbTimeout == 10000          \* self.timeout, the timeout of every bulk transfer
SettleSleep == 200           \* the sleep between the request and the poll
PollDeadline == 3000         \* `timeout` of the poll loop
NoResponseThreshold == 2000  \* a read timeout later than this ends the poll
ShortReadSleep == 5
NoDataSleep == 100
ReadErrorSleep == 5

PollStatuses == {StatusOf(111, 0, 0, 12), StatusOf(90, 1, 0, 24)}

\* How long a read_bulk that returns data or fails at once can take
ReadDurations == {0, 5, 250, 1000}

\* What one read_bulk can return, and after how long: Ok(n) with the n
\* bytes it put in the buffer, Err(Timeout) once the transfer's timeout has
\* passed with no data, or another error.
ReadOutcomes ==
    {[kind |-> "ok", n |-> n, data |-> Take(st, n), err |-> "", dur |-> d] :
        n \in {0, 1, 31, 32}, st \in PollStatuses, d \in ReadDurations}
    \cup {[kind |-> "timeout", n |-> 0, data |-> <<>>, err |-> "Timeout",
           dur |-> UsbTimeout]}
    \cup {[kind |-> "error", n |-> 0, data |-> <<>>, err |-> e, dur |-> d] :
            e \in {"Pipe", "NoDevice"}, d \in {0, 5}}

deadline_exceeded(e) == e > PollDeadline

read_complete_any(n) == n >= 1

read_complete(n) == n >= 32

\* The match on the result of read_bulk, `now` being start_time.elapsed()
\* when the read returned: what get_status returns there (<<>> when the
\* loop continues) and how long it sleeps before it continues.
poll_match(r, now, buf) ==
    CASE r.kind = "ok" /\ read_complete(r.n) ->
            [returns |-> <<Ok(Status_new(buf))>>, sleep |-> 0]
      [] r.kind = "ok" /\ ~read_complete(r.n) ->
            [returns |-> <<>>, sleep |-> ShortReadSleep]
      [] r.kind = "timeout" ->
            IF now < NoResponseThreshold
            THEN [returns |-> <<>>, sleep |-> NoDataSleep]
            ELSE [returns |-> <<Err("Connection closed by printer")>>, sleep |-> 0]
      [] OTHER -> [returns |-> <<>>, sleep |-> ReadErrorSleep]

UsbStatusInit ==
    /\ upc = "send"
    /\ elapsed = 0
    /\ last = NoRead
    /\ response_buffer = [i \in 1..32 |-> 0]
    /\ call = [op |-> "get_status", args |-> <<>>]
    /\ ret = <<>>
    /\ wire = <<>>
    /\ CompressIdle /\ BuilderIdle /\ JobIdle

\* Lines 207-221: the request is written; a failed write ends the call,
\* otherwise the poll starts after the settle sleep.
PollSend ==
    /\ upc = "send"
    /\ \E bytes_written \in WriteOutcomes(StatusRequest) :
          LET w == UsbBackend_send_command(StatusRequest, bytes_written) IN
          /\ wire' = wire \o UsbBackend_send_command_writes(StatusRequest, bytes_written)
          /\ IF w.ok
             THEN upc' = "top" /\ UNCHANGED ret
             ELSE upc' = "returned" /\ ret' = <<w>>
    /\ UNCHANGED <<call, elapsed, last, response_buffer, cvars, bvars, jvars>>

\* Lines 224-227: the head of the loop.
PollCheckDeadline ==
    /\ upc = "top"
    /\ IF deadline_exceeded(elapsed)
       THEN upc' = "returned" /\ ret' = <<Err("Status response timeout")>>
       ELSE upc' = "read" /\ UNCHANGED ret
    /\ UNCHANGED <<call, wire, elapsed, last, response_buffer, cvars, bvars, jvars>>

\* Lines 229-258: one read_bulk and the match on its result.
PollRead ==
    /\ upc = "read"
    /\ \E r \in ReadOutcomes :
          LET now == elapsed + r.dur
              buf == r.data \o Drop(response_buffer, r.n)
              m == poll_match(r, now, buf)
          IN /\ last' = [kind |-> r.kind, n |-> r.n, data |-> r.data, err |-> r.err]
             /\ response_buffer' = buf
             /\ elapsed' = now + m.sleep
             /\ IF m.returns /= <<>>
                THEN upc' = "returned" /\ ret' = m.returns
                ELSE upc' = "top" /\ UNCHANGED ret
    /\ UNCHANGED <<call, wire, cvars, bvars, jvars>>

UsbStatusNext ==
    \/ PollSend
    \/ PollCheckDeadline
    \/ PollRead

SpecUsbStatus == UsbStatusInit /\ [][UsbStatusNext]_vars

\* The calling thread keeps running: a step that can be taken is taken.
SpecUsbStatusFair == SpecUsbStatus /\ WF_vars(UsbStatusNext)

(***************************************************************************)
(* SpecSnmp: one call of NetworkBackend::get_status, on every answer the   *)
(* SNMP GET can have                                                       *)
(***************************************************************************)
MaxVarbinds == 2   \* the most varbinds in one SNMP response

\* The values a varbind can hold: octet strings of several lengths, or a
\* value of another type (Integer, Null, ...)
SnmpValues ==
    {[kind |-> "octets", data |-> d] :
        d \in {StatusOf(111, 0, 0, 12), StatusOf(90, 1, 0, 24), StatusOf(0, 0, 16, 0),
               <<>>, Take(StatusOf(111, 0, 0, 12), 31), StatusOf(111, 0, 0, 12) \o <<0>>,
               StatusOf(90, 0, 0, 6) \o StatusOf(90, 0, 0, 6)}}
    \cup {[kind |-> "other", data |-> <<>>]}

VarbindLists(n) == UNION {[1..k -> SnmpValues] : k \in 0..n}

\* session.get(&oid): an error, or a response with its varbinds
SnmpReplies ==
    {[get_ok |-> FALSE, varbinds |-> <<>>]}
    \cup {[get_ok |-> TRUE, varbinds |-> vs] : vs \in VarbindLists(MaxVarbinds)}

\* session.get(&oid)? followed by response.varbinds.next()
first_varbind(reply) ==
    IF ~reply.get_ok THEN [kind |-> "error", data |-> <<>>]
    ELSE IF reply.varbinds = <<>> THEN [kind |-> "none", data |-> <<>>]
    ELSE reply.varbinds[1]

SnmpInit ==
    /\ call \in {[op |-> "get_status", args |-> <<reply>>] : reply \in SnmpReplies}
    /\ ret = <<>>
    /\ wire = <<>>
    /\ PollIdle
    /\ CompressIdle /\ BuilderIdle /\ JobIdle

CallNetworkGetStatus ==
    Return("get_status", NetworkBackend_get_status(first_varbind(call.args[1])))

SnmpNext == CallNetworkGetStatus

SpecSnmp == SnmpInit /\ [][SnmpNext]_vars

(***************************************************************************)
(* SpecHost: one call of from_host, on every short selector string         *)
(***************************************************************************)
MaxHostLen == 3   \* the longest selector string given to from_host

\* char::is_ascii_hexdigit
HexDigits ==
    {"0", "1", "2", "3", "4", "5", "6", "7", "8", "9",
     "a", "b", "c", "d", "e", "f", "A", "B", "C", "D", "E", "F"}

is_ascii_hexdigit(c) == c \in HexDigits

\* The characters the selector strings are made of
HostChars == {"0", "9", "a", "F", "g", "x", ":", "."}

HostArgs == UNION {[1..n -> HostChars] : n \in 0..MaxHostLen}

contains(s, c) == \E i \in DOMAIN s : s[i] = c

is_usb_specifier_no_colon_needed(host) ==
    \A i \in DOMAIN host : is_ascii_hexdigit(host[i]) \/ host[i] = ":"

is_usb_specifier(host) ==
    /\ contains(host, ":")
    /\ \A i \in DOMAIN host : is_ascii_hexdigit(host[i]) \/ host[i] = ":"

\* str::split_once(':'): the parts before and after the first colon
split_once(s) ==
    IF ~contains(s, ":") THEN <<>>
    ELSE LET i == CHOOSE k \in DOMAIN s :
                      s[k] = ":" /\ \A j \in 1..(k - 1) : s[j] /= ":"
         IN <<Take(s, i - 1), Drop(s, i)>>

RECURSIVE trim_start_matches_0x(_)
trim_start_matches_0x(s) ==
    IF Len(s) >= 2 /\ s[1] = "0" /\ s[2] = "x"
    THEN trim_start_matches_0x(Drop(s, 2))
    ELSE s

\* Whether u16::from_str_radix(s, 16) is Ok: digits only, at least one, and
\* no more than four after the leading zeros
RECURSIVE trim_zeros(_)
trim_zeros(s) == IF s /= <<>> /\ s[1] = "0" THEN trim_zeros(Tail(s)) ELSE s

from_str_radix_ok(s) ==
    /\ s /= <<>>
    /\ \A i \in DOMAIN s : is_ascii_hexdigit(s[i])
    /\ Len(trim_zeros(s)) <= 4

\* UsbBackend::new: the specifier is parsed, then the device is looked for
\* and opened
UsbBackend_new(device_specifier, opened) ==
    LET parts == split_once(device_specifier) IN
    IF parts = <<>> THEN Err("USB device specifier must be in format vendor_id:product_id")
    ELSE IF ~from_str_radix_ok(trim_start_matches_0x(parts[1])) THEN Err("ParseIntError")
    ELSE IF ~from_str_radix_ok(trim_start_matches_0x(parts[2])) THEN Err("ParseIntError")
    ELSE IF ~opened THEN Err("usb error")
    ELSE Ok("UsbBackend")

\* NetworkBackend::new: port 9100 unless the host names one, then connect
NetworkBackend_new(host, opened) ==
    LET address == IF contains(host, ":") THEN host ELSE host \o <<":", "9", "1", "0", "0">> IN
    IF ~opened THEN Err("io error") ELSE Ok("NetworkBackend")

\* The constructor from_host calls
from_host_calls(host) ==
    IF is_usb_specifier(host) THEN <<"UsbBackend::new">> ELSE <<"NetworkBackend::new">>

from_host(host, opened) ==
    IF is_usb_specifier(host)
    THEN UsbBackend_new(host, opened)
    ELSE NetworkBackend_new(host, opened)

HostInit ==
    /\ call \in {[op |-> "from_host", args |-> <<host>>] : host \in HostArgs}
    /\ ret = <<>>
    /\ wire = <<>>
    /\ PollIdle
    /\ CompressIdle /\ BuilderIdle /\ JobIdle

CallFromHost ==
    /\ call.op = "from_host" /\ ret = <<>>
    /\ \E opened \in BOOLEAN :
          ret' = <<from_host(call.args[1], opened)>>
    /\ wire' = from_host_calls(call.args[1])
    /\ UNCHANGED <<call, cvars, bvars, jvars, uvars>>

HostNext == CallFromHost

SpecHost == HostInit /\ [][HostNext]_vars

(***************************************************************************)
(* SpecInfo: print_information_command called once on a new RasterCommand, *)
(* with every combination of its optional arguments and mode flags         *)
(***************************************************************************)
InfoMediaTypes == {None, Some(0), Some(1), Some(255)}
InfoMediaWidths == {None, Some(0), Some(12), Some(255)}
InfoMediaLengths == {None, Some(0), Some(100)}
InfoRasterNumbers == {0, 1, 255, 256, 66051, 16909060, 2147483647}

InfoCalls ==
    {[op |-> "print_information_command", args |-> <<q, r, mt, mw, ml, n, pt>>] :
        q \in BOOLEAN, r \in BOOLEAN, mt \in InfoMediaTypes, mw \in InfoMediaWidths,
        ml \in InfoMediaLengths, n \in InfoRasterNumbers,
        pt \in {FirstPage, MiddlePage, LastPage}}

InfoInit ==
    /\ buffer = <<>>          \* RasterCommand::new
    /\ calls = <<>>
    /\ built = FALSE
    /\ call \in InfoCalls
    /\ ret = <<>>
    /\ wire = <<>>
    /\ PollIdle
    /\ CompressIdle /\ JobIdle

CallPrintInformationOnce ==
    /\ calls = <<>>
    /\ LET a == call.args IN
       Call("print_information_command", <<>>,
            print_information_command(buffer, a[1], a[2], a[3], a[4], a[5], a[6], a[7]))

InfoNext == CallPrintInformationOnce

SpecInfo == InfoInit /\ [][InfoNext]_vars

\* ---- end of specifications ----

(***************************************************************************)
(* Claims about the compressor, checked under SpecCompress                 *)
(***************************************************************************)
\* The decoder of the compressed format: a control byte that is negative as
\* a signed 8-bit value c repeats the next byte 1-c times, a non-negative
\* one copies the next c+1 bytes. A record cut short by the end of the
\* output decodes to the marker -1.
RECURSIVE Expand(_)
Expand(out) ==
    IF out = <<>> THEN <<>>
    ELSE LET c == out[1] IN
         IF c >= 128
         THEN IF Len(out) < 2 THEN <<-1>>
              ELSE Run(out[2], 1 - (c - 256)) \o Expand(Drop(out, 2))
         ELSE IF Len(out) < c + 2 THEN <<-1>>
              ELSE SubSeq(out, 2, c + 2) \o Expand(Drop(out, c + 2))

AllEqual(s) == \A i \in 1..Len(s) : s[i] = s[1]
NoEqualNeighbours(s) == \A i \in 1..(Len(s) - 1) : s[i] /= s[i + 1]

\* C1: decoding the output of compress_tiff_group4 record by record
\* reproduces the input, for every input byte sequence.
C1_RoundTrip == cpc = "done" => Expand(compressed) = data

\* C6: n copies of a byte b, 2 <= n <= 255, compress to the two bytes
\* [(257 - n) mod 256, b]; 70 copies of 0x00 give [0xBB, 0x00] and 70 copies
\* of 0xFF give [0xBB, 0xFF].
C6_RunEncoding ==
    cpc = "done" =>
      /\ (Len(data) \in 2..255 /\ AllEqual(data))
            => compressed = <<(257 - Len(data)) % 256, data[1]>>
      /\ data = Run(0, 70) => compressed = <<187, 0>>
      /\ data = Run(255, 70) => compressed = <<187, 255>>

C6_Witness == cpc = "done" /\ data = Run(255, 255) /\ compressed = <<2, 255>>

\* C7: in every output a repeat-run record has a control byte >= 0x80
\* (negative as a signed byte) and a literal record one <= 0x7F.
C7_SignSelectsKind ==
    cpc = "done" =>
      \A i \in 1..Len(records) :
          /\ records[i].kind = "run" => records[i].ctrl >= 128
          /\ records[i].kind = "literal" => records[i].ctrl <= 127

\* C8: an input of 1..127 bytes with no two consecutive bytes equal
\* compresses to one literal record, the control byte n-1 and the n bytes;
\* and every literal record of every output holds 1..127 bytes, no two
\* consecutive ones equal.
C8_Literal ==
    cpc = "done" =>
      /\ (Len(data) \in 1..127 /\ NoEqualNeighbours(data))
            => /\ compressed = <<Len(data) - 1>> \o data
               /\ Len(compressed) = Len(data) + 1
               /\ compressed[1] < 128
               /\ Len(records) = 1 /\ records[1].kind = "literal"
      /\ \A i \in 1..Len(records) :
            records[i].kind = "literal"
              => /\ Len(records[i].bytes) \in 1..127
                 /\ NoEqualNeighbours(records[i].bytes)

C8_Witness ==
    /\ cpc = "done" /\ data = Alt(0, 255, 127)
    /\ compressed = <<126>> \o data

\* Two equal bytes start at offset q of the input (0-based).
PairAt(q) == q + 2 <= Len(data) /\ data[q + 1] = data[q + 2]

\* c bytes from offset p are the maximal run of one byte, capped at 255.
IsCappedRun(p, c) ==
    /\ c \in 2..255 /\ p + c <= Len(data)
    /\ \A i \in 1..c : data[p + i] = data[p + 1]
    /\ c = 255 \/ p + c = Len(data) \/ data[p + c + 1] /= data[p + 1]

\* c bytes from offset p reach to just before the next pair of equal bytes,
\* capped at 127.
IsLiteralSpan(p, c) ==
    /\ c \in 1..127 /\ p + c <= Len(data)
    /\ \A i \in 0..(c - 1) : ~PairAt(p + i)
    /\ c = 127 \/ p + c = Len(data) \/ PairAt(p + c)

\* C9: the scan is greedy left to right: at every record boundary a pair of
\* equal bytes starts a repeat-run record over the maximal run (capped at
\* 255); otherwise a literal record runs to just before the next pair of
\* equal bytes (capped at 127). [23 BA BF FF FF FF A2 22 2B] compresses to
\* [02 23 BA BF FE FF 02 A2 22 2B].
C9_Greedy ==
    cpc = "done" =>
      /\ \A i \in 1..Len(records) :
            LET r == records[i] IN
            /\ r.start = (IF i = 1 THEN 0 ELSE records[i - 1].start + records[i - 1].count)
            /\ IF PairAt(r.start)
               THEN /\ r.kind = "run"
                    /\ IsCappedRun(r.start, r.count)
                    /\ r.ctrl = (257 - r.count) % 256
                    /\ r.bytes = <<data[r.start + 1]>>
               ELSE /\ r.kind = "literal"
                    /\ IsLiteralSpan(r.start, r.count)
                    /\ r.ctrl = r.count - 1
                    /\ r.bytes = SubSeq(data, r.start + 1, r.start + r.count)
      /\ (IF records = <<>> THEN 0
          ELSE records[Len(records)].start + records[Len(records)].count) = Len(data)
      /\ compressed = Concat([i \in 1..Len(records) |-> <<records[i].ctrl>> \o records[i].bytes])
      /\ data = <<35, 186, 191, 255, 255, 255, 162, 34, 43>>
            => compressed = <<2, 35, 186, 191, 254, 255, 2, 162, 34, 43>>

C9_Witness ==
    /\ cpc = "done"
    /\ data = <<35, 186, 191, 255, 255, 255, 162, 34, 43>>
    /\ Len(records) = 3

\* C10: the empty sequence compresses to the empty sequence, a single byte b
\* to the literal record [0x00, b].
C10_EmptyAndSingle ==
    cpc = "done" =>
      /\ data = <<>> => compressed = <<>>
      /\ Len(data) = 1 => compressed = <<0, data[1]>>

C10_Witness == cpc = "done" /\ data = <<66>> /\ compressed = <<0, 66>>

(***************************************************************************)
(* Claims about the print job, checked under Spec                          *)
(***************************************************************************)
\* A buffer handed to send_command is print data when it ends with a print
\* command (0C or 1A); print's own buffers are print data whatever they hold.
IsPrintData(s) ==
    s.by = "print" \/ (s.data /= <<>> /\ s.data[Len(s.data)] \in {12, 26})

\* C2: the print job fetches the printer status first, and when either
\* error byte of the status is nonzero the job ends with an error and no
\* print data is ever handed to the transport's send.
C2_ErrorsAbortBeforeSend ==
    /\ \A i \in 1..Len(sent) :
          IsPrintData(sent[i])
              => status /= <<>> /\ status[1][9] = 0 /\ status[1][10] = 0
    /\ status = <<>> => pc \in {"start", "opened", "exit"}
    /\ (status /= <<>> /\ (status[1][9] /= 0 \/ status[1][10] /= 0))
          => /\ pc \in {"status", "exit"}
             /\ pc = "exit" => result = "Cannot print due to printer errors"

C2_Witness ==
    /\ pc = "exit" /\ status /= <<>>
    /\ status[1][9] = 0 /\ status[1][10] /= 0
    /\ result = "Cannot print due to printer errors"
    /\ backend = "usb" /\ Len(sent) = 1 /\ sent[1].by = "get_status"

\* The offset after the raster-transfer records (47, 16-bit little-endian
\* length, payload) that start at offset pos of d (1-based).
RECURSIVE RasterEnd(_, _)
RasterEnd(d, pos) ==
    IF pos + 2 <= Len(d) /\ d[pos] = 71
    THEN RasterEnd(d, pos + 3 + d[pos + 1] + 256 * d[pos + 2])
    ELSE pos

StreamInOrder(d) ==
    /\ Len(d) >= 239
    /\ Take(d, 200) = [i \in 1..200 |-> 0]          \* invalidate
    /\ SubSeq(d, 201, 202) = <<27, 64>>              \* initialize
    /\ SubSeq(d, 203, 206) = <<27, 105, 97, 1>>      \* mode switch to raster
    /\ SubSeq(d, 207, 209) = <<27, 105, 122>>        \* print information
    /\ SubSeq(d, 220, 222) = <<27, 105, 77>>         \* various mode
    /\ SubSeq(d, 224, 226) = <<27, 105, 65>>         \* page number
    /\ SubSeq(d, 228, 230) = <<27, 105, 75>>         \* advanced mode
    /\ SubSeq(d, 232, 234) = <<27, 105, 100>>        \* margin
    /\ d[237] = 77                                   \* compression select
    /\ RasterEnd(d, 239) = Len(d)                    \* raster transfers
    /\ d[Len(d)] \in {12, 26}                        \* one print command, last

\* C3: the stream print hands to the transport is 200 zero bytes,
\* initialize, mode switch, print information, various mode, page number,
\* advanced mode, margin, compression select, the raster transfers and one
\* terminal print command, each once and in this order; for the 12 mm /
\* 360 dpi all-white bitmap it begins 00 x 200, 1B 40, 1B 69 61 01 and ends 1A.
C3_StreamOrder ==
    \A i \in 1..Len(sent) :
        sent[i].by = "print" =>
          /\ StreamInOrder(sent[i].data)
          /\ (png.height = 170 /\ png.pat = "white" /\ printable[1].name = "TZe12H"
                /\ ~continuous)
                => sent[i].data[Len(sent[i].data)] = 26

C3_Witness ==
    /\ pc = "exit" /\ result = "ok" /\ ~continuous
    /\ png.height = 170 /\ png.pat = "white" /\ png.width = 2
    /\ printable /= <<>> /\ printable[1].name = "TZe12H"
    /\ Len(sent) = 1 /\ sent[1].by = "print"
    /\ Len(sent[1].data) = 239 + 2 * 5

\* C4: every stream print builds ends with one print command: 0C when the
\* job is continuous, 1A when it is not.
C4_TerminalCommand ==
    \A i \in 1..Len(sent) :
        sent[i].by = "print" =>
          sent[i].data[Len(sent[i].data)] = (IF continuous THEN 12 ELSE 26)

(***************************************************************************)
(* Claims about the builder, checked under SpecBuilder                     *)
(***************************************************************************)
\* C5: a margin amount of 0 is rejected: specifying 0 dots never appends the
\* margin record 1B 69 64 00 00, so no stream holds a zero margin.
C5_ZeroMarginRejected ==
    \A i \in 1..Len(calls) :
        calls[i].op = "specify_margin_amount"
            => calls[i].bytes /= <<27, 105, 100, 0, 0>>

(***************************************************************************)
(* Claims about the tape table, checked under SpecTape                     *)
(***************************************************************************)
TapeInvariant(t) ==
    /\ t.right_pins + t.inner_dots <= t.total_pins
    /\ t.inner_dots <= t.width_dots

\* C11: there are 13 tape geometries, and each one TapeSpec::new builds has
\* right_pins + inner_dots <= total_pins and inner_dots <= width_dots; so
\* has every geometry a lookup returns.
C11_TapeInvariant ==
    /\ Cardinality(Tape) = 13
    /\ (ret /= <<>> /\ call.op = "new")
          => /\ ret[1].name = call.args[1]
             /\ TapeInvariant(ret[1])
    /\ (ret /= <<>> /\ call.op \in {"from_width_dots_and_dpi", "from_width_mm_and_dpi"}
          /\ ret[1] /= <<>>)
          => TapeInvariant(ret[1][1])

C11_Witness ==
    /\ call = [op |-> "new", args |-> <<"TZe24L">>] /\ ret /= <<>>
    /\ ret[1].right_pins + ret[1].inner_dots = ret[1].total_pins
    /\ ret[1].inner_dots < ret[1].width_dots

\* The rows of the table, as written in TapeSpec::new
TableRows ==
    {<<"TZe3H",   4,  48,  48, 560, 264, 360>>, <<"TZe6H",   6,  84,  64, 560, 256, 360>>,
     <<"TZe9H",   9, 128, 106, 560, 235, 360>>, <<"TZe12H", 12, 170, 150, 560, 213, 360>>,
     <<"TZe18H", 18, 256, 234, 560, 171, 360>>, <<"TZe24H", 24, 340, 320, 560, 128, 360>>,
     <<"TZe36H", 36, 512, 454, 560,  61, 360>>, <<"TZe3L",   4,  24,  24, 128,  52, 180>>,
     <<"TZe6L",   6,  42,  32, 128,  48, 180>>, <<"TZe9L",   9,  64,  50, 128,  39, 180>>,
     <<"TZe12L", 12,  84,  70, 128,  29, 180>>, <<"TZe18L", 18, 128, 112, 128,   8, 180>>,
     <<"TZe24L", 24, 170, 128, 128,   0, 180>>}

RowSpec(r) ==
    [name |-> r[1], width_mm |-> r[2], width_dots |-> r[3], inner_dots |-> r[4],
     total_pins |-> r[5], right_pins |-> r[6], dpi |-> r[7]]

\* The nominal width, in mm, of a tape name of the command line
NominalMm(n) ==
    CASE n = "Tape3_5" -> 4 [] n = "Tape6" -> 6 [] n = "Tape9" -> 9
      [] n = "Tape12" -> 12 [] n = "Tape18" -> 18 [] n = "Tape24" -> 24
      [] n = "Tape36" -> 36

\* C12: a lookup returns a geometry only when a row of the table has
\* exactly the width (in dots, or in mm) and the dpi asked for, and then it
\* returns that row; every other combination, 36 mm at 180 dpi included,
\* gives None (an error from to_tape).
C12_ExactLookup ==
    ret /= <<>> =>
      /\ call.op = "from_width_dots_and_dpi" =>
            LET rows == {r \in TableRows : r[3] = call.args[1] /\ r[7] = call.args[2]} IN
            /\ Cardinality(rows) <= 1
            /\ ret[1] = (IF rows = {} THEN <<>> ELSE <<RowSpec(CHOOSE r \in rows : TRUE)>>)
      /\ call.op = "from_width_mm_and_dpi" =>
            LET rows == {r \in TableRows : r[2] = call.args[1] /\ r[7] = call.args[2]} IN
            /\ Cardinality(rows) <= 1
            /\ ret[1] = (IF rows = {} THEN <<>> ELSE <<RowSpec(CHOOSE r \in rows : TRUE)>>)
            /\ (call.args[1] = 36 /\ call.args[2] = 180) => ret[1] = <<>>
      /\ call.op = "to_tape" =>
            LET rows == {r \in TableRows : r[2] = NominalMm(call.args[1])
                                            /\ r[7] = to_dpi(call.args[2])} IN
            /\ Cardinality(rows) <= 1
            /\ ret[1].ok = (rows /= {})
            /\ ret[1].ok => ret[1].val = (CHOOSE r \in rows : TRUE)[1]
            /\ (call.args[1] = "Tape36" /\ call.args[2] = "Dpi180") => ~ret[1].ok

C12_Witness ==
    /\ call = [op |-> "from_width_mm_and_dpi", args |-> <<36, 180>>]
    /\ ret = <<(<<>>)>>

(***************************************************************************)
(* Claims about the status record, checked under SpecStatus                *)
(***************************************************************************)
ZeroStatus == [i \in 1..32 |-> 0]

\* C13: has_errors() of a 32-byte status is true exactly when the byte at
\* offset 8 or the byte at offset 9 is nonzero, whatever the other 30 bytes
\* hold; it is false for the all-zero record.
C13_HasErrors ==
    (ret /= <<>> /\ call.op = "has_errors") =>
      LET st == call.args[1] IN
      /\ ret[1] = (st[9] /= 0 \/ st[10] /= 0)
      /\ st = ZeroStatus => ret[1] = FALSE

C13_Witness ==
    /\ call.op = "has_errors" /\ ret = <<TRUE>>
    /\ call.args[1] = OneByte(0, 9, 128)

\* C14: printer_dpi() of a 32-byte status is 180 exactly when the byte at
\* offset 4 is 0x5A and 360 for every other value of that byte, the known
\* ids 0x6F, 0x70, 0x71, 0x78 and 0x00 included; it returns nothing else.
C14_PrinterDpi ==
    (ret /= <<>> /\ call.op = "printer_dpi") =>
      LET st == call.args[1] IN
      /\ ret[1] \in {180, 360}
      /\ ret[1] = 180 <=> st[5] = 90
      /\ st[5] \in {0, 111, 112, 113, 120} => ret[1] = 360

C14_Witness ==
    /\ call.op = "printer_dpi" /\ ret = <<360>>
    /\ call.args[1] = ThreeBytes(90, 91, 0, 0)

(***************************************************************************)
(* Claims about the rasterizer, checked under SpecImage                    *)
(***************************************************************************)
\* The 8-bit gray value of pixel (x, y) of the file: the gray level, the
\* mean of the three channels, or the mean of the channels over white.
PixelGray(p, x, y) ==
    CASE p.color = "Grayscale" -> PatGray(p.pat, x, y)
      [] p.color = "Rgb" ->
            LET c == PatRgb(p.pat, x, y) IN (c[1] + c[2] + c[3]) \div 3
      [] p.color = "Rgba" ->
            LET c == PatRgba(p.pat, x, y) IN
            IF c[4] = 255 THEN (c[1] + c[2] + c[3]) \div 3 ELSE 255

\* The value of a byte whose bit 7 - j is set exactly when on[j], j in 0..7
BitsMsbFirst(on) ==
    (IF on[0] THEN 128 ELSE 0) + (IF on[1] THEN 64 ELSE 0)
      + (IF on[2] THEN 32 ELSE 0) + (IF on[3] THEN 16 ELSE 0)
      + (IF on[4] THEN 8 ELSE 0) + (IF on[5] THEN 4 ELSE 0)
      + (IF on[6] THEN 2 ELSE 0) + (IF on[7] THEN 1 ELSE 0)

\* The raster line with exactly the bits of pins right_pins ..
\* right_pins + inner_dots - 1 set
BlackLine(t) ==
    [k \in 1..(t.total_pins \div 8) |->
        BitsMsbFirst([j \in 0..7 |->
            /\ 8 * (k - 1) + j >= t.right_pins
            /\ 8 * (k - 1) + j < t.right_pins + t.inner_dots])]

\* C15: for every tape geometry and a bitmap as high as width_dots, an
\* all-white bitmap gives raster lines of zero bytes only and an all-black
\* one gives lines with exactly the bits of pins right_pins ..
\* right_pins + inner_dots - 1 set.
C15_WhiteAndBlack ==
    (ret /= <<>> /\ call.op = "from_png_data" /\ ret[1].ok) =>
      LET t == call.args[1]
          lines == ret[1].val
      IN /\ png.height = t.width_dots
         /\ png.pat = "white" =>
               \A i \in 1..Len(lines) : \A k \in 1..Len(lines[i]) : lines[i][k] = 0
         /\ png.pat = "black" =>
               \A i \in 1..Len(lines) : lines[i] = BlackLine(t)

C15_Witness ==
    /\ ret /= <<>> /\ call.op = "from_png_data" /\ ret[1].ok
    /\ call.args[1].name = "TZe12H" /\ png.pat = "black" /\ png.color = "Rgba"
    /\ png.width = 2
    /\ ret[1].val[2][27] = 7 /\ ret[1].val[2][46] = 224

\* The raster line of column x: the bit of pin p is set exactly when p is
\* right_pins + (y - margin) for a row y of the printable range whose pixel
\* in column x is darker than 127.
ColumnLine(p, t, x) ==
    LET margin == (t.width_dots - t.inner_dots) \div 2 IN
    [k \in 1..(t.total_pins \div 8) |->
        BitsMsbFirst([j \in 0..7 |->
            LET pin == 8 * (k - 1) + j
                y == pin - t.right_pins + margin
            IN /\ y >= margin /\ y < margin + t.inner_dots
               /\ PixelGray(p, x, y) < 127])]

\* C16: a bitmap of width W gives exactly W raster lines, the i-th one
\* built from image column i, each of total_pins / 8 bytes: 70 at 360 dpi,
\* 16 at 180 dpi.
C16_OneLinePerColumn ==
    (ret /= <<>> /\ call.op = "from_png_data" /\ ret[1].ok) =>
      LET t == call.args[1]
          lines == ret[1].val
      IN /\ Len(lines) = png.width
         /\ \A i \in 1..Len(lines) :
               /\ Len(lines[i]) = t.total_pins \div 8
               /\ Len(lines[i]) = (IF t.dpi = 360 THEN 70 ELSE 16)
               /\ lines[i] = ColumnLine(png, t, i - 1)

C16_Witness ==
    /\ ret /= <<>> /\ call.op = "from_png_data" /\ ret[1].ok
    /\ call.args[1].name = "TZe18L" /\ png.pat = "first" /\ png.width = 2
    /\ Len(ret[1].val) = 2
    /\ ret[1].val[1] = BlackLine(call.args[1])
    /\ ret[1].val[2] = [k \in 1..16 |-> 0]

\* C17: a bitmap whose height differs from the tape's width_dots is
\* rejected when the PrintableImage is constructed: the construction
\* returns the height-mismatch error, and nothing is rasterized and no
\* print data is sent for it.
C17_HeightMismatchRejected ==
    /\ (png.header_ok /\ png.height /= call.args[1].width_dots)
          => /\ pc \in {"new", "exit"}
             /\ pc = "exit" => result = "PNG height mismatch"
             /\ printable = <<>> /\ ret = <<>> /\ sent = <<>>
    /\ (printable /= <<>> \/ ret /= <<>> \/ sent /= <<>>)
          => png.height = call.args[1].width_dots

C17_Witness ==
    /\ pc = "exit" /\ result = "PNG height mismatch"
    /\ png.height = 171 /\ call.args[1].name = "TZe12H"
    /\ sent = <<>> /\ ret = <<>>

(***************************************************************************)
(* More claims about the builder, checked under SpecBuilder                *)
(***************************************************************************)
\* C18 as stated: the print-information record is the opcode 1B 69 7A
\* followed by exactly 12 parameter bytes.
C18_TwelveParameterBytes ==
    \A i \in 1..Len(calls) :
        calls[i].op = "print_information_command"
            => /\ SubSeq(calls[i].bytes, 1, 3) = <<27, 105, 122>>
               /\ Len(calls[i].bytes) = 3 + 12

\* C18, amended: the print-information record is the opcode 1B 69 7A
\* followed by exactly 10 parameter bytes, and the call appends nothing else.
C18_TenParameterBytes ==
    \A i \in 1..Len(calls) :
        calls[i].op = "print_information_command"
            => /\ SubSeq(calls[i].bytes, 1, 3) = <<27, 105, 122>>
               /\ Len(calls[i].bytes) = 3 + 10
               /\ calls[i].bytes[13] = 0

C18_Witness ==
    /\ Len(calls) = 2
    /\ calls[2].op = "print_information_command"
    /\ calls[2].args = <<0, 1, 0, 12, -1, 66051, MiddlePage>>
    /\ calls[2].bytes = <<27, 105, 122, 134, 0, 12, 0, 3, 2, 1, 0, 1, 0>>

(***************************************************************************)
(* Claims about the raster transfer record, checked under SpecTransfer     *)
(***************************************************************************)
\* (The calls of SpecTransfer are logged with the payload's name and the
\* offset `at` where their record starts in the buffer.)
\* The bytes are opcode 47, a 16-bit little-endian length, then payload d,
\* and the length field holds the number of bytes of d.
IsTransferRecord(bytes, d) ==
    /\ Len(bytes) = 3 + Len(d)
    /\ bytes[1] = 71
    /\ bytes[2] \in Byte /\ bytes[3] \in Byte
    /\ bytes[2] + 256 * bytes[3] = Len(d)
    /\ Drop(bytes, 3) = d

\* C19 as stated: for every payload passed to raster_graphics_transfer the
\* record appended is 47, the 16-bit little-endian length, the payload, and
\* the length field equals the number of payload bytes.
C19_LengthFieldEveryPayload ==
    \A i \in 1..Len(calls) :
        calls[i].op = "raster_graphics_transfer"
            => IsTransferRecord(Drop(buffer, calls[i].at), PayloadOf(calls[i].args))

\* C19, amended: for every payload of at most 65535 bytes, the maximum the
\* method documents, the record appended is 47, the 16-bit little-endian
\* length, the payload, and the length field equals the number of payload
\* bytes.
C19_LengthFieldUpToMax ==
    \A i \in 1..Len(calls) :
        (calls[i].op = "raster_graphics_transfer" /\ calls[i].args.len <= MaxTransferLen)
            => IsTransferRecord(Drop(buffer, calls[i].at), PayloadOf(calls[i].args))

C19_Witness ==
    /\ Len(calls) = 1 /\ calls[1].op = "raster_graphics_transfer"
    /\ calls[1].args = [kind |-> "run", byte |-> 255, len |-> 65535]
    /\ calls[1].at = 2
    /\ SubSeq(buffer, 3, 5) = <<71, 255, 255>>
    /\ Len(buffer) = 2 + 3 + 65535

(***************************************************************************)
(* Claims about the USB transport, checked under SpecUsb                   *)
(***************************************************************************)
\* C20: a USB send makes exactly one bulk OUT write, of the whole buffer;
\* when the write reports another number of bytes than requested the call
\* returns the incomplete-write error, and it writes nothing more.
C20_OneWritePerSend ==
    /\ ret = <<>> => wire = <<>>
    /\ (ret /= <<>> /\ call.op = "send_command") =>
          /\ Len(wire) = 1
          /\ wire[1].ep = "out" /\ wire[1].data = call.args[1]
          /\ ret[1].ok <=> wire[1].n = Len(call.args[1])
          /\ (wire[1].n >= 0 /\ wire[1].n /= Len(call.args[1]))
                => ret[1].err = "Incomplete USB write"

C20_Witness ==
    /\ call.op = "send_command" /\ call.args[1] = StatusRequest
    /\ Len(wire) = 1 /\ wire[1].n = 204
    /\ ret = <<Err("Incomplete USB write")>>

(***************************************************************************)
(* Claims about the USB status poll, checked under SpecUsbStatus and       *)
(* SpecUsbStatusFair                                                       *)
(***************************************************************************)
\* C21: every get_status over USB returns: with a Status only right after a
\* read that delivered 32 bytes, which the Status holds; and at the head of
\* the loop with more than 3 s elapsed it returns the timeout error without
\* another read.
C21_PollTerminates ==
    /\ <>(upc = "returned" /\ ret /= <<>>)
    /\ []((upc = "returned" /\ ret[1].ok)
            => /\ last.kind = "ok" /\ last.n = 32
               /\ ret[1].val = last.data)
    /\ [][(upc = "top" /\ elapsed > PollDeadline)
            => /\ upc' = "returned"
               /\ ret' = <<Err("Status response timeout")>>
               /\ last' = last]_vars

C21_Witness ==
    /\ upc = "returned" /\ ret = <<Err("Status response timeout")>>
    /\ last.kind = "ok" /\ last.n = 31
    /\ elapsed > PollDeadline

C28_OtherReadErrorsReturned ==
    last.kind = "error"
        => /\ upc = "returned"
           /\ ret = <<Err(last.err)>>

(***************************************************************************)
(* SpecSnmp                                                                *)
(***************************************************************************)
\* The first varbind of the reply is an octet string of exactly 32 bytes
FirstVarbindIsStatus(reply) ==
    /\ reply.get_ok
    /\ Len(reply.varbinds) >= 1
    /\ reply.varbinds[1].kind = "octets"
    /\ Len(reply.varbinds[1].data) = 32

\* C22: the network get_status returns a Status only when the first varbind
\* of the SNMP response is an octet string of exactly 32 bytes, and the
\* Status holds those bytes unchanged; a missing varbind, a value of
\* another type or an octet string of another length gives an error and no
\* Status.
C22_NetworkStatus ==
    (call.op = "get_status" /\ upc = "idle" /\ ret /= <<>>)
        => LET reply == call.args[1] IN
           /\ ret[1].ok <=> FirstVarbindIsStatus(reply)
           /\ ret[1].ok => ret[1].val = reply.varbinds[1].data
           /\ ~ret[1].ok => (ret[1].val = <<>> /\ ret[1].err /= "")

C22_Witness ==
    /\ call.op = "get_status" /\ upc = "idle" /\ ret /= <<>>
    /\ ~ret[1].ok
    /\ call.args[1].get_ok
    /\ Len(call.args[1].varbinds) = 2
    /\ Len(call.args[1].varbinds[1].data) = 33
    /\ FirstVarbindIsStatus([get_ok |-> TRUE, varbinds |-> Tail(call.args[1].varbinds)])

(***************************************************************************)
(* SpecHost                                                                *)
(***************************************************************************)
OnlyHexDigitsAndColons(s) == \A i \in DOMAIN s : s[i] \in HexDigits \cup {":"}

\* from_host has returned, having made its choice for the string `host`
FromHostDone == call.op = "from_host" /\ ret /= <<>>

\* C23 as stated: from_host chooses the USB transport exactly when the
\* selector string consists only of hex digits and colons, and the network
\* transport for every other string.
C23_UsbIffHexAndColons ==
    FromHostDone
        => /\ Len(wire) = 1
           /\ wire[1] = "UsbBackend::new" <=> OnlyHexDigitsAndColons(call.args[1])
           /\ wire[1] = "NetworkBackend::new" <=> ~OnlyHexDigitsAndColons(call.args[1])
           /\ ret[1].ok => ret[1].val = (IF OnlyHexDigitsAndColons(call.args[1])
                                         THEN "UsbBackend" ELSE "NetworkBackend")

\* C23, amended: from_host chooses the USB transport exactly when the
\* selector string contains a colon and consists only of hex digits and
\* colons, and the network transport for every other string.
C23_UsbIffColonAndHex ==
    FromHostDone
        => LET usb == /\ \E i \in DOMAIN call.args[1] : call.args[1][i] = ":"
                      /\ OnlyHexDigitsAndColons(call.args[1])
           IN /\ Len(wire) = 1
              /\ wire[1] = "UsbBackend::new" <=> usb
              /\ wire[1] = "NetworkBackend::new" <=> ~usb
              /\ ret[1].ok => ret[1].val = (IF usb THEN "UsbBackend" ELSE "NetworkBackend")

C23_Witness ==
    /\ FromHostDone
    /\ call.args[1] = <<"F", "a", "9">>
    /\ wire = <<"NetworkBackend::new">>
    /\ ret = <<Ok("NetworkBackend")>>

(***************************************************************************)
(* SpecInfo                                                                *)
(***************************************************************************)
\* Bit `mask` (a power of two) of byte b is set
BitSet(b, mask) == (b \div mask) % 2 = 1

\* The value of an optional byte, 0 when absent
OrZero(o) == IF o = None THEN 0 ELSE o[1]

\* C24: the 10 parameter bytes of the print-information record are the
\* flags byte (0x02 iff a media type is given, 0x04 iff a media width, 0x08
\* iff a media length, 0x40 iff quality mode, 0x80 iff recover mode, no
\* other bit), the media type, width and length bytes (0 when absent), the
\* raster-line count as 4 bytes little-endian, the page-type byte and a
\* reserved zero byte.
C24_PrintInformationBytes ==
    (call.op = "print_information_command" /\ calls /= <<>>)
        => LET a == call.args
               p == Drop(calls[1].bytes, 3)
           IN /\ Len(p) = 10
              /\ \A i \in 1..10 : p[i] \in Byte
              /\ BitSet(p[1], 2) <=> a[3] /= None
              /\ BitSet(p[1], 4) <=> a[4] /= None
              /\ BitSet(p[1], 8) <=> a[5] /= None
              /\ BitSet(p[1], 64) <=> a[1]
              /\ BitSet(p[1], 128) <=> a[2]
              /\ ~BitSet(p[1], 1) /\ ~BitSet(p[1], 16) /\ ~BitSet(p[1], 32)
              /\ p[2] = OrZero(a[3])
              /\ p[3] = OrZero(a[4])
              /\ p[4] = OrZero(a[5])
              /\ p[5] + 256 * p[6] + 65536 * p[7] + 16777216 * p[8] = a[6]
              /\ p[9] = a[7]
              /\ p[9] = (CASE a[7] = FirstPage -> 0 [] a[7] = MiddlePage -> 1
                           [] a[7] = LastPage -> 2)
              /\ p[10] = 0

C24_Witness ==
    /\ call.op = "print_information_command"
    /\ call.args = <<TRUE, FALSE, Some(1), None, Some(100), 16909060, LastPage>>
    /\ Len(calls) = 1
    /\ calls[1].bytes = <<27, 105, 122, 74, 1, 0, 100, 4, 3, 2, 1, 2, 0>>

(***************************************************************************)
(* The bit mapping of the rasterizer, checked under SpecImage              *)
(***************************************************************************)
\* Bit 7 - pin mod 8 of byte pin div 8 of a raster line
PinBit(line, pin) == (line[(pin \div 8) + 1] \div (2 ^ (7 - (pin % 8)))) % 2

\* C25: with margin = (width_dots - inner_dots) / 2, the bit of pin p in
\* the raster line of column x is set if and only if p = right_pins +
\* (y - margin) for a row y with margin <= y < margin + inner_dots whose
\* gray value at (x, y) is below 127; a value of 127 or more leaves the bit
\* clear, and rows outside that range set no bit of any line.
C25_BitMapping ==
    (ret /= <<>> /\ call.op = "from_png_data" /\ ret[1].ok) =>
      LET t == call.args[1]
          lines == ret[1].val
          margin == (t.width_dots - t.inner_dots) \div 2
      IN \A x \in 0..(png.width - 1) :
            /\ \A p \in 0..(t.total_pins - 1) :
                  LET y == margin + (p - t.right_pins) IN
                  PinBit(lines[x + 1], p) = 1
                      <=> /\ margin <= y /\ y < margin + t.inner_dots
                          /\ PixelGray(png, x, y) < 127
            /\ \A p \in 0..(t.total_pins - 1) :
                  PinBit(lines[x + 1], p) = 1
                      => /\ p >= t.right_pins
                         /\ p < t.right_pins + t.inner_dots

C25_Witness ==
    /\ ret /= <<>> /\ call.op = "from_png_data" /\ ret[1].ok
    /\ call.args[1].name = "TZe6L" /\ png.pat = "edge" /\ png.color = "Grayscale"
    /\ png.width = 2
    /\ PixelGray(png, 0, 5) = 127 /\ PixelGray(png, 1, 5) = 126
    /\ ret[1].val[1][6] = 0 /\ ret[1].val[1][7] = 85
    /\ ret[1].val[2][6] = 0 /\ ret[1].val[2][7] = 170

(***************************************************************************)
(* More claims about the print job, checked under Spec                     *)
(***************************************************************************)
\* The send_command calls print has made
PrintSends == SelectSeq(sent, LAMBDA s : s.by = "print")

SendErrors == {"usb error", "Incomplete USB write", "io error"}

\* C26: print makes at most one send call on the transport per job and
\* hands it the complete command stream; when the send fails print returns
\* the send's error without sending again, and when rasterization fails no
\* send is made at all.
C26_AtMostOneSend ==
    /\ Len(PrintSends) <= 1
    /\ PrintSends /= <<>>
          => /\ pc = "exit"
             /\ result \in {"ok"} \cup SendErrors
             /\ png_to_raster_lines(png, printable[1]).ok
             /\ StreamInOrder(PrintSends[1].data)
             /\ PrintSends[1].data =
                   print_command_data(printable[1],
                       png_to_raster_lines(png, printable[1]).val, continuous)
    /\ (pc = "exit" /\ printable /= <<>> /\ result \in SendErrors)
          => /\ Len(PrintSends) = 1
             /\ sent[Len(sent)].by = "print"
    /\ (printable /= <<>> /\ ~png_to_raster_lines(png, printable[1]).ok)
          => /\ PrintSends = <<>>
             /\ pc = "exit" => result = png_to_raster_lines(png, printable[1]).err

C26_Witness ==
    /\ pc = "exit" /\ result = "Incomplete USB write" /\ backend = "usb"
    /\ Len(sent) = 2 /\ sent[1].by = "get_status" /\ sent[2].by = "print"
    /\ StreamInOrder(sent[2].data)

\* The two geometries the job compares: the one the bitmap height implies
\* at the dpi the printer reports, and the one of the reported media width
HeightGeometry(st, p) == from_width_dots_and_dpi(p.height, printer_dpi(st))
MediaGeometry(st) == from_width_mm_and_dpi(media_width_mm(st), printer_dpi(st))

GeometryDisagrees(st, p) ==
    \/ HeightGeometry(st, p) = <<>>
    \/ MediaGeometry(st) = <<>>
    \/ HeightGeometry(st, p)[1].width_dots /= MediaGeometry(st)[1].width_dots

\* C29: when the geometry implied by the bitmap height and the one implied
\* by the reported media width disagree in width_dots, or one of the two
\* lookups finds nothing, the job ends with an error after the status
\* fetch (the error of the status check or of the geometry check), no
\* PrintableImage is made, print is never invoked and no print data is sent.
C29_GeometryMismatchEndsJob ==
    (status /= <<>> /\ GeometryDisagrees(status[1], png))
        => /\ pc \in {"status", "exit"}
           /\ pc = "exit"
                 => result \in {"Cannot print due to printer errors",
                                "Unsupported PNG height", "Unsupported tape width",
                                "Tape specification mismatch"}
           /\ pc = "exit"
                 => (result = "Cannot print due to printer errors"
                        <=> has_errors(status[1]))
           /\ printable = <<>>
           /\ PrintSends = <<>>

C29_Witness ==
    /\ pc = "exit" /\ result = "Tape specification mismatch"
    /\ png.height = 84 /\ status /= <<>>
    /\ printer_dpi(status[1]) = 360 /\ media_width_mm(status[1]) = 12
    /\ printable = <<>> /\ PrintSends = <<>>

(***************************************************************************)
(* The raster transfers of a print stream, checked under SpecImage         *)
(***************************************************************************)
\* The payloads of the raster-transfer records (47, 16-bit little-endian
\* length, payload) that start at offset pos of d (1-based), in order
RECURSIVE RasterPayloads(_, _)
RasterPayloads(d, pos) ==
    IF pos + 2 <= Len(d) /\ d[pos] = 71
    THEN LET n == d[pos + 1] + 256 * d[pos + 2] IN
         <<SubSeq(d, pos + 3, pos + 2 + n)>> \o RasterPayloads(d, pos + 3 + n)
    ELSE <<>>

\* The raster-line count of the print-information record of a print stream
InfoRasterCount(d) == d[214] + 256 * d[215] + 65536 * d[216] + 16777216 * d[217]

\* C30: in every command stream print builds, the number of raster-transfer
\* records equals the bitmap width in columns and the raster-line count of
\* the stream's print-information record, and the k-th raster-transfer
\* record carries the compressed raster line of image column k.
C30_OneTransferPerColumn ==
    \A i \in 1..Len(sent) :
        sent[i].by = "print" =>
          LET d == sent[i].data
              payloads == RasterPayloads(d, 239)
          IN /\ SubSeq(d, 207, 209) = <<27, 105, 122>>
             /\ Len(payloads) = png.width
             /\ InfoRasterCount(d) = png.width
             /\ RasterEnd(d, 239) = Len(d)
             /\ \A k \in 1..Len(payloads) :
                   payloads[k] =
                      compress_tiff_group4(ColumnLine(png, printable[1], k - 1))

C30_Witness ==
    /\ Len(sent) = 1 /\ sent[1].by = "print"
    /\ png.width = 2 /\ png.pat = "first" /\ printable[1].name = "TZe24L"
    /\ InfoRasterCount(sent[1].data) = 2
    /\ RasterPayloads(sent[1].data, 239) = <<<<241, 255>>, <<241, 0>>>>

====
